---- MODULE Spec2Model ----
(***************************************************************************)
(* Model of the binary search tree engines of Assignment-11/task4.py:      *)
(* BinarySearchTree (plain) and AVLTree (self-balancing subclass), and of  *)
(* the linear containers of task1.py (stacks), task2.py (queues) and       *)
(* task3.py (linked lists).                                                *)
(*                                                                         *)
(* A tree is the value of the object graph hanging off `root`: None is the *)
(* empty tuple and a BSTNode is the triple <<left, value, right>>.  Every  *)
(* node is owned by exactly one parent link, so an in-place update of a    *)
(* node is the replacement of the subtree at its position.  That ownership *)
(* is itself checked on a second model of the same methods, in which the   *)
(* nodes are objects with identities in `heap` (SpecHeap).                 *)
(***************************************************************************)
EXTENDS Integers, Sequences, FiniteSets, TLC

----------------------------------------------------------------------------
(* Bounds *)

\* keys offered to insert/delete are 1..MaxKey
MaxKey == 6

Keys == 1..MaxKey

\* keys offered to an AVLTree driven on its own are 1..MaxAvlKey
MaxAvlKey == 7

AvlKeys == 1..MaxAvlKey

----------------------------------------------------------------------------
(* BSTNode *)

None == <<>>

Node(l, v, r) == <<l, v, r>>

Left(n) == n[1]

Value(n) == n[2]

Right(n) == n[3]

Max(a, b) == IF a >= b THEN a ELSE b

Abs(a) == IF a >= 0 THEN a ELSE 0 - a

----------------------------------------------------------------------------
(* BinarySearchTree: queries *)

\* faulty variant: an empty subtree counts 0, so nodes are counted, not edges
RECURSIVE HeightRecursive_CountsNodes(_)
HeightRecursive_CountsNodes(node) ==
    IF node = None THEN 0
    ELSE LET left_height == HeightRecursive_CountsNodes(Left(node))
             right_height == HeightRecursive_CountsNodes(Right(node))
         IN Max(left_height, right_height) + 1

RECURSIVE HeightRecursive(_)
HeightRecursive(node) ==
    IF node = None THEN -1
    ELSE LET left_height == HeightRecursive(Left(node))
             right_height == HeightRecursive(Right(node))
         IN Max(left_height, right_height) + 1

\* faulty variant: the left subtree is counted twice, the right one never
RECURSIVE CountNodes_LeftTwice(_)
CountNodes_LeftTwice(node) ==
    IF node = None THEN 0
    ELSE 1 + CountNodes_LeftTwice(Left(node)) + CountNodes_LeftTwice(Left(node))

RECURSIVE CountNodes(_)
CountNodes(node) ==
    IF node = None THEN 0
    ELSE 1 + CountNodes(Left(node)) + CountNodes(Right(node))

RECURSIVE InorderRecursive(_)
InorderRecursive(node) ==
    IF node = None THEN <<>>
    ELSE InorderRecursive(Left(node)) \o <<Value(node)>> \o InorderRecursive(Right(node))

\* faulty variant: the descent goes to the wrong side
RECURSIVE SearchRecursive_SidesSwapped(_, _)
SearchRecursive_SidesSwapped(node, value) ==
    IF node = None THEN None
    ELSE IF value = Value(node) THEN node
    ELSE IF value < Value(node) THEN SearchRecursive_SidesSwapped(Right(node), value)
    ELSE SearchRecursive_SidesSwapped(Left(node), value)

\* _search_recursive: the node found (its subtree value), or None
RECURSIVE SearchRecursive(_, _)
SearchRecursive(node, value) ==
    IF node = None THEN None
    ELSE IF value = Value(node) THEN node
    ELSE IF value < Value(node) THEN SearchRecursive(Left(node), value)
    ELSE SearchRecursive(Right(node), value)

\* faulty variant: the test of right_balanced is missing
RECURSIVE CheckBalance_SkipsRightTest(_)
CheckBalance_SkipsRightTest(node) ==
    IF node = None THEN <<TRUE, -1>>
    ELSE LET l == CheckBalance_SkipsRightTest(Left(node))
         IN IF ~l[1] THEN <<FALSE, 0>>
            ELSE LET r == CheckBalance_SkipsRightTest(Right(node))
                 IN <<Abs(l[2] - r[2]) <= 1, Max(l[2], r[2]) + 1>>

\* check_balance inside is_balanced: the pair (balanced, height), with the
\* (False, 0) short-circuit once a subtree has failed
RECURSIVE CheckBalance(_)
CheckBalance(node) ==
    IF node = None THEN <<TRUE, -1>>
    ELSE LET l == CheckBalance(Left(node))
         IN IF ~l[1] THEN <<FALSE, 0>>
            ELSE LET r == CheckBalance(Right(node))
                 IN IF ~r[1] THEN <<FALSE, 0>>
                    ELSE <<Abs(l[2] - r[2]) <= 1, Max(l[2], r[2]) + 1>>

IsBalanced(node) == CheckBalance(node)[1]

RECURSIVE PreorderRecursive(_)
PreorderRecursive(node) ==
    IF node = None THEN <<>>
    ELSE <<Value(node)>> \o PreorderRecursive(Left(node)) \o PreorderRecursive(Right(node))

\* faulty variant: the node is appended between its subtrees
RECURSIVE PostorderRecursive_NodeInTheMiddle(_)
PostorderRecursive_NodeInTheMiddle(node) ==
    IF node = None THEN <<>>
    ELSE PostorderRecursive_NodeInTheMiddle(Left(node)) \o <<Value(node)>>
            \o PostorderRecursive_NodeInTheMiddle(Right(node))

RECURSIVE PostorderRecursive(_)
PostorderRecursive(node) ==
    IF node = None THEN <<>>
    ELSE PostorderRecursive(Left(node)) \o PostorderRecursive(Right(node)) \o <<Value(node)>>

\* faulty variant: the right child is enqueued before the left child
RECURSIVE LevelorderLoop_RightFirst(_, _, _)
LevelorderLoop_RightFirst(queue, result, dequeued) ==
    IF queue = <<>> THEN [queue |-> queue, result |-> result, dequeued |-> dequeued]
    ELSE LET node == Head(queue)
             withRight == IF Right(node) # None THEN Append(Tail(queue), Right(node))
                          ELSE Tail(queue)
             withLeft == IF Left(node) # None THEN Append(withRight, Left(node))
                         ELSE withRight
         IN LevelorderLoop_RightFirst(withLeft, Append(result, Value(node)),
                                      Append(dequeued, node))

\* the while loop of levelorder_traversal over its FIFO queue: the state of
\* the loop when it ends, with the nodes taken by popleft() in that order
RECURSIVE LevelorderLoop(_, _, _)
LevelorderLoop(queue, result, dequeued) ==
    IF queue = <<>> THEN [queue |-> queue, result |-> result, dequeued |-> dequeued]
    ELSE LET node == Head(queue)
             withLeft == IF Left(node) # None THEN Append(Tail(queue), Left(node))
                         ELSE Tail(queue)
             withRight == IF Right(node) # None THEN Append(withLeft, Right(node))
                          ELSE withLeft
         IN LevelorderLoop(withRight, Append(result, Value(node)), Append(dequeued, node))

LevelorderTraversal(tree) ==
    IF tree = None THEN <<>> ELSE LevelorderLoop(<<tree>>, <<>>, <<>>).result

\* faulty variant: a single step to the left instead of the loop
MinWalk_OneStep(current) ==
    IF Left(current) = None THEN Value(current) ELSE Value(Left(current))

\* the while loop of find_min
RECURSIVE MinWalk(_)
MinWalk(current) ==
    IF Left(current) = None THEN Value(current) ELSE MinWalk(Left(current))

\* the while loop of find_max
RECURSIVE MaxWalk(_)
MaxWalk(current) ==
    IF Right(current) = None THEN Value(current) ELSE MaxWalk(Right(current))

\* the outcome of a query: ret is "None" when the method returns None and
\* "value" when it returns val
Returned(val) == [ret |-> "value", val |-> val]

ReturnedNone == [ret |-> "None", val |-> None]

FindMin(tree) == IF tree = None THEN ReturnedNone ELSE Returned(MinWalk(tree))

FindMax(tree) == IF tree = None THEN ReturnedNone ELSE Returned(MaxWalk(tree))

Search(tree, value) ==
    LET node == SearchRecursive(tree, value)
    IN IF node = None THEN ReturnedNone ELSE Returned(node)

IsEmpty(tree) == tree = None

----------------------------------------------------------------------------
(* BinarySearchTree: insert *)

\* faulty variant: no descent, the new node is hung directly below the node
\* the call starts at, whatever was there
InsertRecursive_OverwritesChild(node, value) ==
    IF value = Value(node) THEN [t |-> node, exc |-> "DuplicateValueError"]
    ELSE IF value < Value(node)
    THEN [t |-> Node(Node(None, value, None), Value(node), Right(node)), exc |-> ""]
    ELSE [t |-> Node(Left(node), Value(node), Node(None, value, None)), exc |-> ""]

\* faulty variant: the comparison that picks the side is reversed
RECURSIVE InsertRecursive_SidesSwapped(_, _)
InsertRecursive_SidesSwapped(node, value) ==
    IF value = Value(node) THEN [t |-> node, exc |-> "DuplicateValueError"]
    ELSE IF value > Value(node) THEN
        IF Left(node) = None
        THEN [t |-> Node(Node(None, value, None), Value(node), Right(node)), exc |-> ""]
        ELSE LET sub == InsertRecursive_SidesSwapped(Left(node), value)
             IN [t |-> Node(sub.t, Value(node), Right(node)), exc |-> sub.exc]
    ELSE
        IF Right(node) = None
        THEN [t |-> Node(Left(node), Value(node), Node(None, value, None)), exc |-> ""]
        ELSE LET sub == InsertRecursive_SidesSwapped(Right(node), value)
             IN [t |-> Node(Left(node), Value(node), sub.t), exc |-> sub.exc]

\* _insert_recursive on a non-empty subtree: the subtree afterwards and the
\* exception raised ("" when none)
RECURSIVE InsertRecursive(_, _)
InsertRecursive(node, value) ==
    IF value = Value(node) THEN [t |-> node, exc |-> "DuplicateValueError"]
    ELSE IF value < Value(node) THEN
        IF Left(node) = None
        THEN [t |-> Node(Node(None, value, None), Value(node), Right(node)), exc |-> ""]
        ELSE LET sub == InsertRecursive(Left(node), value)
             IN [t |-> Node(sub.t, Value(node), Right(node)), exc |-> sub.exc]
    ELSE
        IF Right(node) = None
        THEN [t |-> Node(Left(node), Value(node), Node(None, value, None)), exc |-> ""]
        ELSE LET sub == InsertRecursive(Right(node), value)
             IN [t |-> Node(Left(node), Value(node), sub.t), exc |-> sub.exc]

BstInsertResult(tree, value) ==
    IF tree = None THEN [t |-> Node(None, value, None), exc |-> ""]
    ELSE InsertRecursive(tree, value)

----------------------------------------------------------------------------
(* BinarySearchTree: delete (inherited unchanged by AVLTree) *)

\* the successor walk of the two-children case: leftmost node of a subtree
RECURSIVE Successor(_)
Successor(node) ==
    IF Left(node) = None THEN node ELSE Successor(Left(node))

\* faulty variant: the successor's right subtree is dropped with it
RECURSIVE UnlinkSuccessor_DropsRight(_)
UnlinkSuccessor_DropsRight(node) ==
    IF Left(node) = None THEN None
    ELSE Node(UnlinkSuccessor_DropsRight(Left(node)), Value(node), Right(node))

\* unlinking the successor: its parent's link takes successor.right
RECURSIVE UnlinkSuccessor(_)
UnlinkSuccessor(node) ==
    IF Left(node) = None THEN Right(node)
    ELSE Node(UnlinkSuccessor(Left(node)), Value(node), Right(node))

\* faulty variant: the two-children case copies the successor's value but
\* never unlinks the successor
RECURSIVE DeleteRecursive_KeepsSuccessor(_, _)
DeleteRecursive_KeepsSuccessor(node, value) ==
    IF node = None THEN [t |-> None, deleted |-> FALSE]
    ELSE IF value < Value(node) THEN
        LET sub == DeleteRecursive_KeepsSuccessor(Left(node), value)
        IN [t |-> Node(sub.t, Value(node), Right(node)), deleted |-> sub.deleted]
    ELSE IF value > Value(node) THEN
        LET sub == DeleteRecursive_KeepsSuccessor(Right(node), value)
        IN [t |-> Node(Left(node), Value(node), sub.t), deleted |-> sub.deleted]
    ELSE IF Left(node) = None /\ Right(node) = None THEN [t |-> None, deleted |-> TRUE]
    ELSE IF Left(node) = None THEN [t |-> Right(node), deleted |-> TRUE]
    ELSE IF Right(node) = None THEN [t |-> Left(node), deleted |-> TRUE]
    ELSE [t |-> Node(Left(node), Value(Successor(Right(node))), Right(node)),
          deleted |-> TRUE]

\* faulty variant: the two-children case promotes the in-order predecessor
\* (rightmost node of the left subtree) instead of the successor
RECURSIVE Predecessor(_)
Predecessor(node) ==
    IF Right(node) = None THEN node ELSE Predecessor(Right(node))

RECURSIVE UnlinkPredecessor(_)
UnlinkPredecessor(node) ==
    IF Right(node) = None THEN Left(node)
    ELSE Node(Left(node), Value(node), UnlinkPredecessor(Right(node)))

RECURSIVE DeleteRecursive_PromotesPredecessor(_, _)
DeleteRecursive_PromotesPredecessor(node, value) ==
    IF node = None THEN [t |-> None, deleted |-> FALSE]
    ELSE IF value < Value(node) THEN
        LET sub == DeleteRecursive_PromotesPredecessor(Left(node), value)
        IN [t |-> Node(sub.t, Value(node), Right(node)), deleted |-> sub.deleted]
    ELSE IF value > Value(node) THEN
        LET sub == DeleteRecursive_PromotesPredecessor(Right(node), value)
        IN [t |-> Node(Left(node), Value(node), sub.t), deleted |-> sub.deleted]
    ELSE IF Left(node) = None /\ Right(node) = None THEN [t |-> None, deleted |-> TRUE]
    ELSE IF Left(node) = None THEN [t |-> Right(node), deleted |-> TRUE]
    ELSE IF Right(node) = None THEN [t |-> Left(node), deleted |-> TRUE]
    ELSE [t |-> Node(UnlinkPredecessor(Left(node)), Value(Predecessor(Left(node))), Right(node)),
          deleted |-> TRUE]

RECURSIVE DeleteRecursive(_, _)
DeleteRecursive(node, value) ==
    IF node = None THEN [t |-> None, deleted |-> FALSE]
    ELSE IF value < Value(node) THEN
        LET sub == DeleteRecursive(Left(node), value)
        IN [t |-> Node(sub.t, Value(node), Right(node)), deleted |-> sub.deleted]
    ELSE IF value > Value(node) THEN
        LET sub == DeleteRecursive(Right(node), value)
        IN [t |-> Node(Left(node), Value(node), sub.t), deleted |-> sub.deleted]
    ELSE IF Left(node) = None /\ Right(node) = None THEN [t |-> None, deleted |-> TRUE]
    ELSE IF Left(node) = None THEN [t |-> Right(node), deleted |-> TRUE]
    ELSE IF Right(node) = None THEN [t |-> Left(node), deleted |-> TRUE]
    ELSE [t |-> Node(Left(node), Value(Successor(Right(node))), UnlinkSuccessor(Right(node))),
          deleted |-> TRUE]

\* faulty variant: the empty-tree early return is missing and a miss is
\* reported as a removal
DeleteResult_MissReportsTrue(tree, value) ==
    [t |-> DeleteRecursive(tree, value).t, deleted |-> TRUE]

DeleteResult(tree, value) ==
    IF tree = None THEN [t |-> None, deleted |-> FALSE]
    ELSE DeleteRecursive(tree, value)

----------------------------------------------------------------------------
(* AVLTree: rotations, balance, insert *)

GetBalanceFactor(node) ==
    IF node = None THEN 0
    ELSE HeightRecursive(Left(node)) - HeightRecursive(Right(node))

\* faulty variant: the new root's former left subtree is hung on the wrong
\* side of the demoted node
RotateLeft_WrongSide(node) ==
    LET right_child == Right(node)
    IN IF right_child = None THEN [t |-> node, exc |-> "AttributeError"]
       ELSE [t |-> Node(Node(Left(right_child), Value(node), Left(node)),
                        Value(right_child), Right(right_child)),
             exc |-> ""]

\* _rotate_left; reading right_child.left of a missing right child raises
\* AttributeError before anything is assigned
RotateLeft(node) ==
    LET right_child == Right(node)
    IN IF right_child = None THEN [t |-> node, exc |-> "AttributeError"]
       ELSE [t |-> Node(Node(Left(node), Value(node), Left(right_child)),
                        Value(right_child), Right(right_child)),
             exc |-> ""]

\* faulty variant: node.left = left_child.right is forgotten, so the new
\* root's former right subtree is lost
RotateRight_DropsInner(node) ==
    LET left_child == Left(node)
    IN IF left_child = None THEN [t |-> node, exc |-> "AttributeError"]
       ELSE [t |-> Node(Left(left_child), Value(left_child),
                        Node(None, Value(node), Right(node))),
             exc |-> ""]

RotateRight(node) ==
    LET left_child == Left(node)
    IN IF left_child = None THEN [t |-> node, exc |-> "AttributeError"]
       ELSE [t |-> Node(Left(left_child), Value(left_child),
                        Node(Right(left_child), Value(node), Right(node))),
             exc |-> ""]

\* faulty variant: the inner rotation of the double-rotation cases is missing
Balance_SingleOnly(node) ==
    LET balance_factor == GetBalanceFactor(node)
    IN IF balance_factor > 1 THEN RotateRight(node)
       ELSE IF balance_factor < -1 THEN RotateLeft(node)
       ELSE [t |-> node, exc |-> ""]

\* faulty variant: the right-heavy threshold is off by one
Balance_LateThreshold(node) ==
    LET balance_factor == GetBalanceFactor(node)
    IN IF balance_factor > 1 THEN
           IF GetBalanceFactor(Left(node)) < 0
           THEN LET inner == RotateLeft(Left(node))
                IN IF inner.exc # "" THEN [t |-> node, exc |-> inner.exc]
                   ELSE RotateRight(Node(inner.t, Value(node), Right(node)))
           ELSE RotateRight(node)
       ELSE IF balance_factor < -2 THEN
           IF GetBalanceFactor(Right(node)) > 0
           THEN LET inner == RotateRight(Right(node))
                IN IF inner.exc # "" THEN [t |-> node, exc |-> inner.exc]
                   ELSE RotateLeft(Node(Left(node), Value(node), inner.t))
           ELSE RotateLeft(node)
       ELSE [t |-> node, exc |-> ""]

\* faulty variant: the test for the inner rotation of a right-heavy node is
\* reversed
Balance_RightInnerTestReversed(node) ==
    LET balance_factor == GetBalanceFactor(node)
    IN IF balance_factor > 1 THEN
           IF GetBalanceFactor(Left(node)) < 0
           THEN LET inner == RotateLeft(Left(node))
                IN IF inner.exc # "" THEN [t |-> node, exc |-> inner.exc]
                   ELSE RotateRight(Node(inner.t, Value(node), Right(node)))
           ELSE RotateRight(node)
       ELSE IF balance_factor < -1 THEN
           IF GetBalanceFactor(Right(node)) < 0
           THEN LET inner == RotateRight(Right(node))
                IN IF inner.exc # "" THEN [t |-> node, exc |-> inner.exc]
                   ELSE RotateLeft(Node(Left(node), Value(node), inner.t))
           ELSE RotateLeft(node)
       ELSE [t |-> node, exc |-> ""]

\* faulty variant: the inner rotation of a left-heavy node is made when the
\* left child leans left, where it may have no right child to rotate up
Balance_LeftInnerTestReversed(node) ==
    LET balance_factor == GetBalanceFactor(node)
    IN IF balance_factor > 1 THEN
           IF GetBalanceFactor(Left(node)) > 0
           THEN LET inner == RotateLeft(Left(node))
                IN IF inner.exc # "" THEN [t |-> node, exc |-> inner.exc]
                   ELSE RotateRight(Node(inner.t, Value(node), Right(node)))
           ELSE RotateRight(node)
       ELSE IF balance_factor < -1 THEN
           IF GetBalanceFactor(Right(node)) > 0
           THEN LET inner == RotateRight(Right(node))
                IN IF inner.exc # "" THEN [t |-> node, exc |-> inner.exc]
                   ELSE RotateLeft(Node(Left(node), Value(node), inner.t))
           ELSE RotateLeft(node)
       ELSE [t |-> node, exc |-> ""]

Balance(node) ==
    LET balance_factor == GetBalanceFactor(node)
    IN IF balance_factor > 1 THEN
           IF GetBalanceFactor(Left(node)) < 0
           THEN LET inner == RotateLeft(Left(node))
                IN IF inner.exc # "" THEN [t |-> node, exc |-> inner.exc]
                   ELSE RotateRight(Node(inner.t, Value(node), Right(node)))
           ELSE RotateRight(node)
       ELSE IF balance_factor < -1 THEN
           IF GetBalanceFactor(Right(node)) > 0
           THEN LET inner == RotateRight(Right(node))
                IN IF inner.exc # "" THEN [t |-> node, exc |-> inner.exc]
                   ELSE RotateLeft(Node(Left(node), Value(node), inner.t))
           ELSE RotateLeft(node)
       ELSE [t |-> node, exc |-> ""]

\* faulty variant: no equality test, an equal key goes to the right
RECURSIVE InsertAvl_NoDuplicateTest(_, _)
InsertAvl_NoDuplicateTest(node, value) ==
    IF node = None THEN [t |-> Node(None, value, None), exc |-> ""]
    ELSE IF value < Value(node) THEN
        LET sub == InsertAvl_NoDuplicateTest(Left(node), value)
        IN IF sub.exc # "" THEN [t |-> Node(sub.t, Value(node), Right(node)), exc |-> sub.exc]
           ELSE Balance(Node(sub.t, Value(node), Right(node)))
    ELSE
        LET sub == InsertAvl_NoDuplicateTest(Right(node), value)
        IN IF sub.exc # "" THEN [t |-> Node(Left(node), Value(node), sub.t), exc |-> sub.exc]
           ELSE Balance(Node(Left(node), Value(node), sub.t))

\* _insert_avl: an exception raised below leaves the links of the frames
\* above as they were (the assignment node.left = ... is never reached)
RECURSIVE InsertAvl(_, _)
InsertAvl(node, value) ==
    IF node = None THEN [t |-> Node(None, value, None), exc |-> ""]
    ELSE IF value = Value(node) THEN [t |-> node, exc |-> "DuplicateValueError"]
    ELSE IF value < Value(node) THEN
        LET sub == InsertAvl(Left(node), value)
        IN IF sub.exc # "" THEN [t |-> Node(sub.t, Value(node), Right(node)), exc |-> sub.exc]
           ELSE Balance(Node(sub.t, Value(node), Right(node)))
    ELSE
        LET sub == InsertAvl(Right(node), value)
        IN IF sub.exc # "" THEN [t |-> Node(Left(node), Value(node), sub.t), exc |-> sub.exc]
           ELSE Balance(Node(Left(node), Value(node), sub.t))

\* AVLTree.insert: self.root = self._insert_avl(self.root, value); when the
\* call raises, self.root still names the same node object, whose state is
\* the one _insert_avl left behind
AvlInsertResult(tree, value) == InsertAvl(tree, value)

----------------------------------------------------------------------------
(* State *)

VARIABLES
    kind,     \* the class constructed: "bst" (BinarySearchTree), "avl" (AVLTree),
              \* or the name of one of the container classes of task1-3
    root,     \* self.root of the tree, as the value of the object graph below it
    lastOp,   \* the last call made, its argument and its outcome
    heap,     \* the node objects alive, by identity: id -> fields
    rootRef,  \* self.root of the tree, as a reference into heap
    head,     \* SinglyLinkedList.head
    tail,     \* OptimizedSinglyLinkedList.tail
    items,    \* Queue.items / Stack.items (a list)
    deque,    \* OptimizedQueue.items (a collections.deque)
    front,    \* LinkedListQueue.front
    rear,     \* LinkedListQueue.rear
    size,     \* LinkedListQueue._size
    max_size, \* BoundedQueue.max_size / BoundedStack.max_size
    clock,    \* the number of items handed to the container so far
    statistics \* StatisticsStack.total_pushes, total_pops and max_size_reached

vars == <<kind, root, lastOp, heap, rootRef, head, tail, items, deque, front, rear,
          size, max_size, clock, statistics>>

\* the counters of a StatisticsStack as its constructor sets them
NoStatistics == [total_pushes |-> 0, total_pops |-> 0, max_size_reached |-> 0]

\* a reference that names no object
NoneRef == 0

\* what a call on the tree (as a value) leaves alone
offTree == <<heap, rootRef, head, tail, items, deque, front, rear, size, max_size, clock,
              statistics>>

\* no node object and no container has been constructed
NothingElse ==
    /\ heap = <<>>
    /\ rootRef = NoneRef
    /\ head = NoneRef /\ tail = NoneRef
    /\ items = <<>> /\ deque = <<>>
    /\ front = NoneRef /\ rear = NoneRef /\ size = 0
    /\ max_size = 0
    /\ clock = 0
    /\ statistics = NoStatistics

Init ==
    /\ kind \in {"bst", "avl"}
    /\ root = None
    /\ lastOp = [op |-> "init", key |-> 0, ret |-> "None"]
    /\ NothingElse

RetOfInsert(exc) == IF exc = "" THEN "None" ELSE exc

BstInsert(k) ==
    /\ kind = "bst"
    /\ LET res == BstInsertResult(root, k)
       IN /\ root' = res.t
          /\ lastOp' = [op |-> "insert", key |-> k, ret |-> RetOfInsert(res.exc)]
    /\ UNCHANGED <<kind, offTree>>

AvlInsert(k) ==
    /\ kind = "avl"
    /\ LET res == AvlInsertResult(root, k)
       IN /\ root' = res.t
          /\ lastOp' = [op |-> "insert", key |-> k, ret |-> RetOfInsert(res.exc)]
    /\ UNCHANGED <<kind, offTree>>

Delete(k) ==
    /\ LET res == DeleteResult(root, k)
       IN /\ root' = res.t
          /\ lastOp' = [op |-> "delete", key |-> k,
                        ret |-> IF res.deleted THEN "True" ELSE "False"]
    /\ UNCHANGED <<kind, offTree>>

\* faulty variant: only the children of the root are released
Clear_KeepsRootNode ==
    /\ root' = IF root = None THEN None ELSE Node(None, Value(root), None)
    /\ lastOp' = [op |-> "clear", key |-> 0, ret |-> "None"]
    /\ UNCHANGED <<kind, offTree>>

Clear ==
    /\ root' = None
    /\ lastOp' = [op |-> "clear", key |-> 0, ret |-> "None"]
    /\ UNCHANGED <<kind, offTree>>

Next ==
    \/ \E k \in Keys : BstInsert(k)
    \/ \E k \in Keys : AvlInsert(k)
    \/ \E k \in Keys : Delete(k)
    \/ Clear

Spec == Init /\ [][Next]_vars

\* the tree grown by insert calls only
NextInsertOnly ==
    \/ \E k \in Keys : BstInsert(k)
    \/ \E k \in Keys : AvlInsert(k)

SpecInsertOnly == Init /\ [][NextInsertOnly]_vars

\* an AVLTree on its own, with the larger key range
InitAvl ==
    /\ kind = "avl"
    /\ root = None
    /\ lastOp = [op |-> "init", key |-> 0, ret |-> "None"]
    /\ NothingElse

NextAvl ==
    \/ \E k \in AvlKeys : AvlInsert(k)
    \/ \E k \in AvlKeys : Delete(k)
    \/ Clear

SpecAvl == InitAvl /\ [][NextAvl]_vars

----------------------------------------------------------------------------
(* Queries: calls that leave the tree alone and return a value *)

QueryCall(op, key, res) ==
    /\ lastOp' = [op |-> op, key |-> key, ret |-> res.ret, val |-> res.val]
    /\ UNCHANGED <<kind, root, offTree>>

SearchCall(k) == QueryCall("search", k, Search(root, k))

FindMinCall == QueryCall("find_min", 0, FindMin(root))

FindMaxCall == QueryCall("find_max", 0, FindMax(root))

HeightCall == QueryCall("height", 0, Returned(HeightRecursive(root)))

IsBalancedCall == QueryCall("is_balanced", 0, Returned(IsBalanced(root)))

LenCall == QueryCall("len", 0, Returned(CountNodes(root)))

IsEmptyCall == QueryCall("is_empty", 0, Returned(IsEmpty(root)))

InorderCall == QueryCall("inorder_traversal", 0, Returned(InorderRecursive(root)))

PreorderCall == QueryCall("preorder_traversal", 0, Returned(PreorderRecursive(root)))

PostorderCall == QueryCall("postorder_traversal", 0, Returned(PostorderRecursive(root)))

LevelorderCall == QueryCall("levelorder_traversal", 0, Returned(LevelorderTraversal(root)))

NextQuery ==
    \/ \E k \in Keys : BstInsert(k)
    \/ \E k \in Keys : AvlInsert(k)
    \/ \E k \in Keys : Delete(k)
    \/ Clear
    \/ \E k \in Keys : SearchCall(k)
    \/ FindMinCall
    \/ FindMaxCall
    \/ HeightCall
    \/ IsBalancedCall
    \/ LenCall
    \/ IsEmptyCall
    \/ InorderCall
    \/ PreorderCall
    \/ PostorderCall
    \/ LevelorderCall

\* mutators and queries interleaved in any order
SpecQuery == Init /\ [][NextQuery]_vars

----------------------------------------------------------------------------
(* Callers that insert in a fixed order *)

\* each key inserted is larger than the one inserted before it
NextAscending ==
    \/ \E k \in AvlKeys : k > lastOp.key /\ BstInsert(k)
    \/ \E k \in AvlKeys : k > lastOp.key /\ AvlInsert(k)

SpecAscending == Init /\ [][NextAscending]_vars

\* the values list of demonstrate_basic_bst
DemoValues == <<50, 30, 70, 20, 40, 60, 80>>

DemoKeys == {DemoValues[i] : i \in 1..Len(DemoValues)}

\* index of a key in the list, 0 when it is not in it
DemoIndex(k) ==
    IF k \in DemoKeys THEN CHOOSE i \in 1..Len(DemoValues) : DemoValues[i] = k ELSE 0

InitBst ==
    /\ kind = "bst"
    /\ root = None
    /\ lastOp = [op |-> "init", key |-> 0, ret |-> "None"]
    /\ NothingElse

\* a plain BST fed values of the list in list order (any of them may be
\* left out), followed by one delete
NextDemo ==
    \/ \E i \in 1..Len(DemoValues) :
          /\ lastOp.op \in {"init", "insert"}
          /\ DemoIndex(lastOp.key) < i
          /\ BstInsert(DemoValues[i])
    \/ \E k \in DemoKeys : lastOp.op = "insert" /\ Delete(k)

SpecDemo == InitBst /\ [][NextDemo]_vars

----------------------------------------------------------------------------
(* The tree as linked BSTNode objects: every assignment to node.left,       *)
(* node.right, node.value and self.root is an update of heap or rootRef     *)

\* keys offered to the tree of linked objects are 1..MaxHeapKey
MaxHeapKey == 4

HeapKeys == 1..MaxHeapKey

\* identities a new object can get (never more than MaxHeapKey objects are
\* alive); one that is free is reused
Refs == 1..MaxHeapKey

NewRef(h) == CHOOSE r \in Refs \ DOMAIN h : \A q \in Refs \ DOMAIN h : r <= q

\* BSTNode(value) constructed with identity new
BSTNode(h, new, value) ==
    [r \in DOMAIN h \cup {new} |->
        IF r = new THEN [value |-> value, left |-> NoneRef, right |-> NoneRef] ELSE h[r]]

\* the objects a set of references leads to over left and right
RECURSIVE ReachableFrom(_, _)
ReachableFrom(h, S) ==
    LET T == S \cup (({h[r].left : r \in S} \cup {h[r].right : r \in S}) \ {NoneRef})
    IN IF T = S THEN S ELSE ReachableFrom(h, T)

\* objects no reference leads to any more are freed
Collect(h, r) ==
    LET live == ReachableFrom(h, {r} \ {NoneRef})
    IN [q \in live |-> h[q]]

HeapInsertRecursiveBody(h, node, value, new) ==
    IF value < h[node].value
    THEN [BSTNode(h, new, value) EXCEPT ![node].left = new]
    ELSE [BSTNode(h, new, value) EXCEPT ![node].right = new]

\* _insert_recursive: the heap afterwards and the exception raised
RECURSIVE HeapInsertRecursive(_, _, _)
HeapInsertRecursive(h, node, value) ==
    IF value = h[node].value THEN [h |-> h, exc |-> "DuplicateValueError"]
    ELSE IF value < h[node].value THEN
        IF h[node].left = NoneRef
        THEN [h |-> HeapInsertRecursiveBody(h, node, value, NewRef(h)), exc |-> ""]
        ELSE HeapInsertRecursive(h, h[node].left, value)
    ELSE
        IF h[node].right = NoneRef
        THEN [h |-> HeapInsertRecursiveBody(h, node, value, NewRef(h)), exc |-> ""]
        ELSE HeapInsertRecursive(h, h[node].right, value)

\* BinarySearchTree.insert
HeapBstInsertResult(h, r, value) ==
    IF r = NoneRef
    THEN [h |-> BSTNode(h, NewRef(h), value), ref |-> NewRef(h), exc |-> ""]
    ELSE LET res == HeapInsertRecursive(h, r, value)
         IN [h |-> res.h, ref |-> r, exc |-> res.exc]

\* the while loop of the two-children case: <<successor_parent, successor>>
RECURSIVE SuccessorWalk(_, _, _)
SuccessorWalk(h, successor_parent, successor) ==
    IF h[successor].left = NoneRef THEN <<successor_parent, successor>>
    ELSE SuccessorWalk(h, successor, h[successor].left)

\* faulty variant: the successor is always unlinked through node.right, as
\* if it were the direct right child
HeapDeleteBothChildren_AlwaysThroughRight(h, node) ==
    LET walk == SuccessorWalk(h, node, h[node].right)
        successor == walk[2]
    IN [h EXCEPT ![node].value = h[successor].value,
                 ![node].right = h[successor].right]

\* case 4 of _delete_recursive: node.value = successor.value, then the
\* successor is unlinked from successor_parent
HeapDeleteBothChildren(h, node) ==
    LET walk == SuccessorWalk(h, node, h[node].right)
        successor_parent == walk[1]
        successor == walk[2]
        copied == [h EXCEPT ![node].value = h[successor].value]
    IN IF successor_parent = node
       THEN [copied EXCEPT ![node].right = h[successor].right]
       ELSE [copied EXCEPT ![successor_parent].left = h[successor].right]

\* faulty variant: a node with one child is unlinked like a leaf, its child
\* with it
RECURSIVE HeapDeleteRecursive_OneChildAsLeaf(_, _, _)
HeapDeleteRecursive_OneChildAsLeaf(h, node, value) ==
    IF node = NoneRef THEN [h |-> h, ref |-> NoneRef, deleted |-> FALSE, branch |-> "miss"]
    ELSE IF value < h[node].value THEN
        LET sub == HeapDeleteRecursive_OneChildAsLeaf(h, h[node].left, value)
        IN [h |-> [sub.h EXCEPT ![node].left = sub.ref], ref |-> node,
            deleted |-> sub.deleted, branch |-> sub.branch]
    ELSE IF value > h[node].value THEN
        LET sub == HeapDeleteRecursive_OneChildAsLeaf(h, h[node].right, value)
        IN [h |-> [sub.h EXCEPT ![node].right = sub.ref], ref |-> node,
            deleted |-> sub.deleted, branch |-> sub.branch]
    ELSE IF h[node].left = NoneRef /\ h[node].right = NoneRef
    THEN [h |-> h, ref |-> NoneRef, deleted |-> TRUE, branch |-> "no children"]
    ELSE IF h[node].left = NoneRef
    THEN [h |-> h, ref |-> NoneRef, deleted |-> TRUE, branch |-> "only right child"]
    ELSE IF h[node].right = NoneRef
    THEN [h |-> h, ref |-> NoneRef, deleted |-> TRUE, branch |-> "only left child"]
    ELSE [h |-> HeapDeleteBothChildren(h, node), ref |-> node, deleted |-> TRUE,
          branch |-> "both children"]

\* _delete_recursive: the heap afterwards, the reference returned, the flag,
\* and the case of the code that handled the node found
RECURSIVE HeapDeleteRecursive(_, _, _)
HeapDeleteRecursive(h, node, value) ==
    IF node = NoneRef THEN [h |-> h, ref |-> NoneRef, deleted |-> FALSE, branch |-> "miss"]
    ELSE IF value < h[node].value THEN
        LET sub == HeapDeleteRecursive(h, h[node].left, value)
        IN [h |-> [sub.h EXCEPT ![node].left = sub.ref], ref |-> node,
            deleted |-> sub.deleted, branch |-> sub.branch]
    ELSE IF value > h[node].value THEN
        LET sub == HeapDeleteRecursive(h, h[node].right, value)
        IN [h |-> [sub.h EXCEPT ![node].right = sub.ref], ref |-> node,
            deleted |-> sub.deleted, branch |-> sub.branch]
    ELSE IF h[node].left = NoneRef /\ h[node].right = NoneRef
    THEN [h |-> h, ref |-> NoneRef, deleted |-> TRUE, branch |-> "no children"]
    ELSE IF h[node].left = NoneRef
    THEN [h |-> h, ref |-> h[node].right, deleted |-> TRUE, branch |-> "only right child"]
    ELSE IF h[node].right = NoneRef
    THEN [h |-> h, ref |-> h[node].left, deleted |-> TRUE, branch |-> "only left child"]
    ELSE [h |-> HeapDeleteBothChildren(h, node), ref |-> node, deleted |-> TRUE,
          branch |-> "both children"]

\* BinarySearchTree.delete
HeapDeleteResult(h, r, value) ==
    IF r = NoneRef THEN [h |-> h, ref |-> NoneRef, deleted |-> FALSE, branch |-> "miss"]
    ELSE HeapDeleteRecursive(h, r, value)

RECURSIVE HeapHeightRecursive(_, _)
HeapHeightRecursive(h, node) ==
    IF node = NoneRef THEN -1
    ELSE Max(HeapHeightRecursive(h, h[node].left), HeapHeightRecursive(h, h[node].right)) + 1

HeapGetBalanceFactor(h, node) ==
    IF node = NoneRef THEN 0
    ELSE HeapHeightRecursive(h, h[node].left) - HeapHeightRecursive(h, h[node].right)

\* faulty variant: node.right is taken from right_child.right, so that
\* subtree hangs below two nodes
HeapRotateLeft_SharesOuter(h, node) ==
    LET right_child == h[node].right
    IN IF right_child = NoneRef THEN [h |-> h, ref |-> node, exc |-> "AttributeError"]
       ELSE [h |-> [h EXCEPT ![node].right = h[right_child].right,
                             ![right_child].left = node],
             ref |-> right_child, exc |-> ""]

\* _rotate_left: node.right = right_child.left; right_child.left = node
HeapRotateLeft(h, node) ==
    LET right_child == h[node].right
    IN IF right_child = NoneRef THEN [h |-> h, ref |-> node, exc |-> "AttributeError"]
       ELSE [h |-> [h EXCEPT ![node].right = h[right_child].left,
                             ![right_child].left = node],
             ref |-> right_child, exc |-> ""]

\* faulty variant: node.left = left_child.right is forgotten, so node and
\* its former left child point at each other
HeapRotateRight_KeepsInner(h, node) ==
    LET left_child == h[node].left
    IN IF left_child = NoneRef THEN [h |-> h, ref |-> node, exc |-> "AttributeError"]
       ELSE [h |-> [h EXCEPT ![left_child].right = node],
             ref |-> left_child, exc |-> ""]

\* _rotate_right: node.left = left_child.right; left_child.right = node
HeapRotateRight(h, node) ==
    LET left_child == h[node].left
    IN IF left_child = NoneRef THEN [h |-> h, ref |-> node, exc |-> "AttributeError"]
       ELSE [h |-> [h EXCEPT ![node].left = h[left_child].right,
                             ![left_child].right = node],
             ref |-> left_child, exc |-> ""]

\* _balance
HeapBalance(h, node) ==
    LET balance_factor == HeapGetBalanceFactor(h, node)
    IN IF balance_factor > 1 THEN
           IF HeapGetBalanceFactor(h, h[node].left) < 0
           THEN LET inner == HeapRotateLeft(h, h[node].left)
                IN IF inner.exc # "" THEN [h |-> h, ref |-> node, exc |-> inner.exc]
                   ELSE HeapRotateRight([inner.h EXCEPT ![node].left = inner.ref], node)
           ELSE HeapRotateRight(h, node)
       ELSE IF balance_factor < -1 THEN
           IF HeapGetBalanceFactor(h, h[node].right) > 0
           THEN LET inner == HeapRotateRight(h, h[node].right)
                IN IF inner.exc # "" THEN [h |-> h, ref |-> node, exc |-> inner.exc]
                   ELSE HeapRotateLeft([inner.h EXCEPT ![node].right = inner.ref], node)
           ELSE HeapRotateLeft(h, node)
       ELSE [h |-> h, ref |-> node, exc |-> ""]

\* _insert_avl: the heap afterwards, the reference returned and the
\* exception raised; an exception from below skips the assignment above it
RECURSIVE HeapInsertAvl(_, _, _)
HeapInsertAvl(h, node, value) ==
    IF node = NoneRef
    THEN [h |-> BSTNode(h, NewRef(h), value), ref |-> NewRef(h), exc |-> ""]
    ELSE IF value = h[node].value THEN [h |-> h, ref |-> node, exc |-> "DuplicateValueError"]
    ELSE IF value < h[node].value THEN
        LET sub == HeapInsertAvl(h, h[node].left, value)
        IN IF sub.exc # "" THEN [h |-> sub.h, ref |-> node, exc |-> sub.exc]
           ELSE HeapBalance([sub.h EXCEPT ![node].left = sub.ref], node)
    ELSE
        LET sub == HeapInsertAvl(h, h[node].right, value)
        IN IF sub.exc # "" THEN [h |-> sub.h, ref |-> node, exc |-> sub.exc]
           ELSE HeapBalance([sub.h EXCEPT ![node].right = sub.ref], node)

\* AVLTree.insert: self.root is assigned only when _insert_avl returns
HeapAvlInsertResult(h, r, value) ==
    LET res == HeapInsertAvl(h, r, value)
    IN IF res.exc # "" THEN [h |-> res.h, ref |-> r, exc |-> res.exc] ELSE res

\* what a call on the tree of linked objects leaves alone
offHeap == <<head, tail, items, deque, front, rear, size, max_size, clock,
              statistics>>

\* the calls act on the linked objects and, side by side, on the tree value
HeapBstInsert(k) ==
    /\ kind = "bst"
    /\ LET res == HeapBstInsertResult(heap, rootRef, k)
       IN /\ heap' = Collect(res.h, res.ref)
          /\ rootRef' = res.ref
          /\ lastOp' = [op |-> "insert", key |-> k, ret |-> RetOfInsert(res.exc)]
    /\ root' = BstInsertResult(root, k).t
    /\ UNCHANGED <<kind, offHeap>>

HeapAvlInsert(k) ==
    /\ kind = "avl"
    /\ LET res == HeapAvlInsertResult(heap, rootRef, k)
       IN /\ heap' = Collect(res.h, res.ref)
          /\ rootRef' = res.ref
          /\ lastOp' = [op |-> "insert", key |-> k, ret |-> RetOfInsert(res.exc)]
    /\ root' = AvlInsertResult(root, k).t
    /\ UNCHANGED <<kind, offHeap>>

HeapDelete(k) ==
    /\ LET res == HeapDeleteResult(heap, rootRef, k)
       IN /\ heap' = Collect(res.h, res.ref)
          /\ rootRef' = res.ref
          /\ lastOp' = [op |-> "delete", key |-> k,
                        ret |-> IF res.deleted THEN "True" ELSE "False",
                        branch |-> res.branch]
    /\ root' = DeleteResult(root, k).t
    /\ UNCHANGED <<kind, offHeap>>

HeapClear ==
    /\ rootRef' = NoneRef
    /\ heap' = Collect(heap, NoneRef)
    /\ root' = None
    /\ lastOp' = [op |-> "clear", key |-> 0, ret |-> "None"]
    /\ UNCHANGED <<kind, offHeap>>

NextHeap ==
    \/ \E k \in HeapKeys : HeapBstInsert(k)
    \/ \E k \in HeapKeys : HeapAvlInsert(k)
    \/ \E k \in HeapKeys : HeapDelete(k)
    \/ HeapClear

SpecHeap == Init /\ [][NextHeap]_vars

\* the tree value that the objects below a reference make up
RECURSIVE TreeOf(_, _)
TreeOf(h, r) ==
    IF r = NoneRef THEN None
    ELSE Node(TreeOf(h, h[r].left), h[r].value, TreeOf(h, h[r].right))

\* every way from a reference down over at most fuel links, with the object
\* it ends at
RECURSIVE WaysFrom(_, _, _, _)
WaysFrom(h, r, path, fuel) ==
    IF r = NoneRef THEN {}
    ELSE {<<r, path>>}
            \cup (IF fuel = 0 THEN {}
                  ELSE WaysFrom(h, h[r].left, Append(path, 0), fuel - 1)
                          \cup WaysFrom(h, h[r].right, Append(path, 1), fuel - 1))

\* where the live objects are: the set of <<object, path from the root>>
PlacesOf(h, r) == WaysFrom(h, r, <<>>, Cardinality(DOMAIN h))

\* every object is reached from the root over exactly one path: no object
\* has two parents or fills both child links of one, the root is no child,
\* and no path comes back to an object (which would make paths of any length)
ProperTree(h, r) ==
    LET ways == PlacesOf(h, r)
    IN /\ \A a, b \in ways : a[1] = b[1] => a[2] = b[2]
       /\ \A a \in ways : Len(a[2]) < Cardinality(DOMAIN h)
       /\ {a[1] : a \in ways} = DOMAIN h

----------------------------------------------------------------------------
(* Vocabulary of the properties *)

RECURSIVE KeysOf(_)
KeysOf(node) ==
    IF node = None THEN {}
    ELSE KeysOf(Left(node)) \cup {Value(node)} \cup KeysOf(Right(node))

\* |height(left) - height(right)| <= 1 at every node
RECURSIVE BalancedAtEveryNode(_)
BalancedAtEveryNode(node) ==
    \/ node = None
    \/ /\ Abs(HeightRecursive(Left(node)) - HeightRecursive(Right(node))) <= 1
       /\ BalancedAtEveryNode(Left(node))
       /\ BalancedAtEveryNode(Right(node))

\* left-subtree keys < node key < right-subtree keys at every node
RECURSIVE OrderedAtEveryNode(_)
OrderedAtEveryNode(node) ==
    \/ node = None
    \/ /\ \A x \in KeysOf(Left(node)) : x < Value(node)
       /\ \A x \in KeysOf(Right(node)) : x > Value(node)
       /\ OrderedAtEveryNode(Left(node))
       /\ OrderedAtEveryNode(Right(node))

StrictlyAscending(seq) == \A i \in 1..(Len(seq) - 1) : seq[i] < seq[i + 1]

IsLeaf(node) == node # None /\ Left(node) = None /\ Right(node) = None

\* floor(1.44 * log2(n + 2) - 1) for n = 1..15
AvlHeightBound == <<1, 1, 2, 2, 3, 3, 3, 3, 3, 4, 4, 4, 4, 4, 4>>

----------------------------------------------------------------------------
(* Claims *)

\* C1 (as claimed; refuted by the code): after every insert and delete on an
\* AVLTree, is_balanced() is true and every node has
\* |height(left) - height(right)| <= 1.
C1_AvlBalancedAfterEveryOperation ==
    kind = "avl" => IsBalanced(root) /\ BalancedAtEveryNode(root)

\* C2: on an AVLTree grown by insert calls only, after each insert
\* is_balanced() is true and every node has |height(left) - height(right)| <= 1.
C2_AvlBalancedAfterEveryInsert ==
    (kind = "avl" /\ lastOp.op \in {"init", "insert"})
        => (IsBalanced(root) /\ BalancedAtEveryNode(root))

\* an insert whose key ended above the leaves: a double rotation lifted it
C2_Witness ==
    /\ kind = "avl"
    /\ lastOp.op = "insert" /\ lastOp.ret = "None"
    /\ ~IsLeaf(SearchRecursive(root, lastOp.key))
    /\ CountNodes(root) >= 5

\* C3: in every state of a plain BinarySearchTree reached by inserts and
\* deletes, every node has its left-subtree keys below and its right-subtree
\* keys above its own key, and inorder_traversal() is strictly ascending.
C3_BstOrdered ==
    kind = "bst"
        => (OrderedAtEveryNode(root) /\ StrictlyAscending(InorderRecursive(root)))

\* a successful delete that left a tree of height >= 2 behind
C3_Witness ==
    /\ kind = "bst"
    /\ lastOp.op = "delete" /\ lastOp.ret = "True"
    /\ HeightRecursive(root) >= 2
    /\ Left(root) # None /\ Right(root) # None

\* C4: in every state of an AVLTree reached by inserts and deletes the
\* ordering invariant holds at every node and inorder_traversal() is strictly
\* ascending: rotations never break the ordering.
C4_AvlOrdered ==
    kind = "avl"
        => (OrderedAtEveryNode(root) /\ StrictlyAscending(InorderRecursive(root)))

\* an insert after which the new key is the root of the whole tree
C4_Witness ==
    /\ kind = "avl"
    /\ lastOp.op = "insert" /\ lastOp.ret = "None"
    /\ CountNodes(root) >= 3
    /\ Value(root) = lastOp.key

\* C5: inserting a key that is already present raises DuplicateValueError in
\* both engines and leaves the tree as it was: same links, size, inorder
\* sequence and height.
C5_DuplicateInsertChangesNothing ==
    [][(lastOp'.op = "insert" /\ lastOp'.key \in KeysOf(root))
        => /\ lastOp'.ret = "DuplicateValueError"
           /\ root' = root
           /\ CountNodes(root') = CountNodes(root)
           /\ InorderRecursive(root') = InorderRecursive(root)
           /\ HeightRecursive(root') = HeightRecursive(root)]_vars

\* a rejected insert of a key that sits below the root of an AVLTree
C5_Witness ==
    /\ kind = "avl"
    /\ lastOp.op = "insert" /\ lastOp.ret = "DuplicateValueError"
    /\ root # None /\ Value(root) # lastOp.key
    /\ lastOp.key \in KeysOf(root)

\* C6: in both engines insert(k) of an absent key succeeds; afterwards
\* search(k) finds a node with key k, the size is one larger, the key set is
\* the old one plus k, and every old key is still found.
C6_InsertAddsExactlyTheKey ==
    [][(lastOp'.op = "insert" /\ lastOp'.key \notin KeysOf(root))
        => /\ lastOp'.ret = "None"
           /\ SearchRecursive(root', lastOp'.key) # None
           /\ Value(SearchRecursive(root', lastOp'.key)) = lastOp'.key
           /\ CountNodes(root') = CountNodes(root) + 1
           /\ KeysOf(root') = KeysOf(root) \cup {lastOp'.key}
           /\ \A j \in KeysOf(root) : SearchRecursive(root', j) # None]_vars

\* a successful insert that made a tree of at least six nodes, found again
C6_Witness ==
    /\ lastOp.op = "insert" /\ lastOp.ret = "None"
    /\ CountNodes(root) >= 6
    /\ SearchRecursive(root, lastOp.key) # None

\* C7: in both engines delete(k) of a present key returns True; afterwards
\* search(k) finds nothing, the size is one smaller and the key set is the
\* old one minus k.
C7_DeleteRemovesExactlyTheKey ==
    [][(lastOp'.op = "delete" /\ lastOp'.key \in KeysOf(root))
        => /\ lastOp'.ret = "True"
           /\ SearchRecursive(root', lastOp'.key) = None
           /\ CountNodes(root') = CountNodes(root) - 1
           /\ KeysOf(root') = KeysOf(root) \ {lastOp'.key}
           /\ \A j \in KeysOf(root) \ {lastOp'.key} : SearchRecursive(root', j) # None]_vars

\* a successful delete of a key that had smaller and larger keys around it
C7_Witness ==
    /\ lastOp.op = "delete" /\ lastOp.ret = "True"
    /\ lastOp.key \notin KeysOf(root)
    /\ \E a, b \in KeysOf(root) : a < lastOp.key /\ lastOp.key < b
    /\ CountNodes(root) >= 3

\* C8: delete(k) of an absent key, also on an empty tree, returns False and
\* changes nothing.
C8_DeleteOfAbsentKeyIsNoOp ==
    [][(lastOp'.op = "delete" /\ lastOp'.key \notin KeysOf(root))
        => /\ lastOp'.ret = "False"
           /\ root' = root
           /\ CountNodes(root') = CountNodes(root)
           /\ InorderRecursive(root') = InorderRecursive(root)]_vars

\* a delete that missed in a tree of at least two nodes
C8_Witness ==
    /\ lastOp.op = "delete" /\ lastOp.ret = "False"
    /\ CountNodes(root) >= 2

\* C9: inserting the keys 1..n in any order into an empty tree of either
\* engine makes inorder_traversal() return <<1, 2, ..., n>>.
C9_InorderOfPermutationIsSorted ==
    \A n \in 0..MaxKey :
        KeysOf(root) = 1..n => InorderRecursive(root) = [i \in 1..n |-> i]

\* all of 1..5 inserted into an AVLTree
C9_Witness ==
    /\ kind = "avl"
    /\ lastOp.op = "insert" /\ lastOp.ret = "None"
    /\ KeysOf(root) = 1..5
    /\ InorderRecursive(root) = <<1, 2, 3, 4, 5>>

\* C10 (as claimed; refuted by the code): every non-empty AVLTree state
\* reached by insert, delete and clear has
\* height() <= 1.44 * log2(n + 2) - 1 for its n nodes.
C10_AvlHeightBound ==
    (kind = "avl" /\ root # None)
        => HeightRecursive(root) <= AvlHeightBound[CountNodes(root)]

----------------------------------------------------------------------------
(* More vocabulary *)

SeqElems(seq) == {seq[i] : i \in 1..Len(seq)}

\* where x stands in a sequence that holds it
PosIn(seq, x) == CHOOSE i \in 1..Len(seq) : seq[i] = x

SetMax(S) == CHOOSE x \in S : \A y \in S : y <= x

\* every node of a tree, as the subtree it roots
RECURSIVE SubtreesOf(_)
SubtreesOf(node) ==
    IF node = None THEN {}
    ELSE {node} \cup SubtreesOf(Left(node)) \cup SubtreesOf(Right(node))

\* the numbers of edges of the root-to-leaf paths below a node at depth d
RECURSIVE PathLengths(_, _)
PathLengths(node, d) ==
    IF IsLeaf(node) THEN {d}
    ELSE (IF Left(node) = None THEN {} ELSE PathLengths(Left(node), d + 1))
         \cup (IF Right(node) = None THEN {} ELSE PathLengths(Right(node), d + 1))

\* seq lists every key of the tree exactly once
ListsEveryKeyOnce(seq, tree) ==
    /\ SeqElems(seq) = KeysOf(tree)
    /\ Len(seq) = Cardinality(KeysOf(tree))

----------------------------------------------------------------------------
(* Claims, continued *)

\* C11: inserting n distinct keys in ascending order into an empty plain
\* BinarySearchTree gives a right-skewed chain: height() = n - 1, no node has
\* a left child, and is_balanced() is False exactly from n = 3 on.
C11_AscendingInsertsMakeAChain ==
    kind = "bst"
        => /\ HeightRecursive(root) = CountNodes(root) - 1
           /\ \A n \in SubtreesOf(root) : Left(n) = None
           /\ IsBalanced(root) <=> CountNodes(root) < 3

\* five keys inserted in ascending order
C11_Witness ==
    /\ kind = "bst"
    /\ lastOp.op = "insert" /\ lastOp.ret = "None"
    /\ CountNodes(root) = 5
    /\ HeightRecursive(root) = 4
    /\ ~IsBalanced(root)

\* C12: after inserting 50, 30, 70, 20, 40, 60, 80 in that order into an
\* empty plain BST, inorder is <<20, 30, 40, 50, 60, 70, 80>>, the height is 2
\* and is_balanced() is true; after a following delete(30) inorder is
\* <<20, 40, 50, 60, 70, 80>> and the left child of the root holds 40, with 20
\* as its left child and no right child.
C12_DemoScenario ==
    /\ (lastOp.op = "insert" /\ KeysOf(root) = DemoKeys)
        => /\ InorderRecursive(root) = <<20, 30, 40, 50, 60, 70, 80>>
           /\ HeightRecursive(root) = 2
           /\ IsBalanced(root)
    /\ (lastOp.op = "delete" /\ lastOp.key = 30 /\ lastOp.ret = "True"
            /\ KeysOf(root) = DemoKeys \ {30})
        => /\ InorderRecursive(root) = <<20, 40, 50, 60, 70, 80>>
           /\ Value(root) = 50
           /\ Value(Left(root)) = 40
           /\ Left(Left(root)) = Node(None, 20, None)
           /\ Right(Left(root)) = None

\* all seven values inserted, then 30 deleted
C12_Witness ==
    /\ lastOp.op = "delete" /\ lastOp.key = 30 /\ lastOp.ret = "True"
    /\ CountNodes(root) = 6
    /\ KeysOf(root) = DemoKeys \ {30}

\* C13: inserting 1, 2, ..., 7 in that order into an empty AVLTree leaves
\* is_balanced() true after every insert and ends with height() = 2; the same
\* inserts into a plain BinarySearchTree end with height() = 6.
C13_OneToSevenAscending ==
    /\ (kind = "avl" /\ \E n \in 0..7 : KeysOf(root) = 1..n) => IsBalanced(root)
    /\ (kind = "avl" /\ KeysOf(root) = 1..7) => HeightRecursive(root) = 2
    /\ (kind = "bst" /\ KeysOf(root) = 1..7) => HeightRecursive(root) = 6

\* the AVLTree after the seventh insert
C13_Witness ==
    /\ kind = "avl"
    /\ lastOp.op = "insert" /\ lastOp.key = 7 /\ lastOp.ret = "None"
    /\ KeysOf(root) = 1..7
    /\ HeightRecursive(root) = 2

\* C14: in every reachable tree of either engine, search(k) returns a node
\* with key k exactly when k is in the inorder sequence, and None otherwise.
C14_SearchFindsExactlyThePresentKeys ==
    /\ \A k \in Keys :
          LET res == Search(root, k)
          IN IF k \in SeqElems(InorderRecursive(root))
             THEN res.ret = "value" /\ Value(res.val) = k
             ELSE res.ret = "None"
    /\ lastOp.op = "search"
        => IF lastOp.key \in SeqElems(InorderRecursive(root))
           THEN lastOp.ret = "value" /\ Value(lastOp.val) = lastOp.key
           ELSE lastOp.ret = "None"

\* a search that found a leaf below the root of an AVLTree left unbalanced
C14_Witness ==
    /\ kind = "avl"
    /\ lastOp.op = "search" /\ lastOp.ret = "value"
    /\ IsLeaf(lastOp.val)
    /\ Value(root) # lastOp.key
    /\ ~IsBalanced(root)

\* C15: on a non-empty tree find_min() returns the smallest and find_max()
\* the largest key of the tree; on an empty tree both return None.
C15_FindMinMax ==
    /\ lastOp.op = "find_min"
        => IF root = None THEN lastOp.ret = "None"
           ELSE /\ lastOp.ret = "value"
                /\ lastOp.val \in KeysOf(root)
                /\ \A x \in KeysOf(root) : lastOp.val <= x
    /\ lastOp.op = "find_max"
        => IF root = None THEN lastOp.ret = "None"
           ELSE /\ lastOp.ret = "value"
                /\ lastOp.val \in KeysOf(root)
                /\ \A x \in KeysOf(root) : lastOp.val >= x

\* a find_min whose answer lies more than one link below the root
C15_Witness ==
    /\ lastOp.op = "find_min" /\ lastOp.ret = "value"
    /\ root # None /\ Left(root) # None
    /\ lastOp.val < Value(Left(root))

\* C16: height() is -1 for an empty tree, 0 for a single node, and otherwise
\* 1 + max(height(left), height(right)), the number of edges on the longest
\* root-to-leaf path.
C16_HeightIsLongestPath ==
    lastOp.op = "height"
        => /\ root = None => lastOp.val = -1
           /\ IsLeaf(root) => lastOp.val = 0
           /\ root # None
                => /\ lastOp.val = SetMax(PathLengths(root, 0))
                   /\ lastOp.val = 1 + Max(HeightRecursive(Left(root)),
                                           HeightRecursive(Right(root)))

\* height() of a tree whose longest path has three edges and a shorter one
C16_Witness ==
    /\ lastOp.op = "height"
    /\ lastOp.val = 3
    /\ Cardinality(PathLengths(root, 0)) >= 2

\* C17: is_balanced() returns True exactly when every node of the tree has
\* |height(left) - height(right)| <= 1, and True for an empty tree.
C17_IsBalancedMeansEveryNode ==
    lastOp.op = "is_balanced"
        => /\ lastOp.val <=> BalancedAtEveryNode(root)
           /\ root = None => lastOp.val

\* is_balanced() is False for an imbalance that lies below a root whose own
\* two subtrees differ in height by at most 1
C17_Witness ==
    /\ lastOp.op = "is_balanced"
    /\ lastOp.val = FALSE
    /\ root # None
    /\ Abs(HeightRecursive(Left(root)) - HeightRecursive(Right(root))) <= 1

\* C18: len(tree) follows the successful inserts, deletes and clears (one up,
\* one down, reset to 0, otherwise unchanged), so it is the number of distinct
\* keys in the tree; it equals the length of inorder_traversal(), and
\* is_empty() is True exactly when it is 0.
C18_SizeCountsLiveKeys ==
    [][/\ CountNodes(root') =
            IF lastOp'.op = "insert" /\ lastOp'.ret = "None" THEN CountNodes(root) + 1
            ELSE IF lastOp'.op = "delete" /\ lastOp'.ret = "True" THEN CountNodes(root) - 1
            ELSE IF lastOp'.op = "clear" THEN 0
            ELSE CountNodes(root)
       /\ lastOp'.op = "len"
            => /\ lastOp'.val = Cardinality(KeysOf(root'))
               /\ lastOp'.val = Len(InorderRecursive(root'))
       /\ lastOp'.op = "is_empty"
            => (lastOp'.val <=> CountNodes(root') = 0)]_vars

\* len() of a tree with keys on both sides of the root
C18_Witness ==
    /\ lastOp.op = "len"
    /\ lastOp.val >= 4
    /\ Left(root) # None /\ Right(root) # None
    /\ Right(root) # None /\ Left(Right(root)) # None

\* C19: clear() leaves an empty tree: is_empty() True, size 0, height -1,
\* every traversal empty, every search None, and every key that was present
\* can be inserted again without DuplicateValueError.
C19_ClearEmptiesTheTree ==
    [][lastOp'.op = "clear"
        => /\ IsEmpty(root')
           /\ CountNodes(root') = 0
           /\ HeightRecursive(root') = -1
           /\ InorderRecursive(root') = <<>>
           /\ PreorderRecursive(root') = <<>>
           /\ PostorderRecursive(root') = <<>>
           /\ LevelorderTraversal(root') = <<>>
           /\ \A k \in Keys : Search(root', k).ret = "None"
           /\ \A k \in KeysOf(root) :
                 /\ BstInsertResult(root', k).exc = ""
                 /\ AvlInsertResult(root', k).exc = ""]_vars

\* the state a clear() of an AVLTree leaves behind
C19_Witness ==
    /\ kind = "avl"
    /\ lastOp.op = "clear"
    /\ IsEmpty(root)

\* C20: inorder, preorder and postorder list every key of the tree exactly
\* once, in Left-Node-Right, Node-Left-Right and Left-Right-Node order at
\* every node; preorder starts with the root key and postorder ends with it.
C20_TraversalOrders ==
    /\ lastOp.op = "inorder_traversal"
        => /\ ListsEveryKeyOnce(lastOp.val, root)
           /\ \A n \in SubtreesOf(root) :
                 /\ \A a \in KeysOf(Left(n)) :
                       PosIn(lastOp.val, a) < PosIn(lastOp.val, Value(n))
                 /\ \A b \in KeysOf(Right(n)) :
                       PosIn(lastOp.val, Value(n)) < PosIn(lastOp.val, b)
    /\ lastOp.op = "preorder_traversal"
        => /\ ListsEveryKeyOnce(lastOp.val, root)
           /\ root # None => Head(lastOp.val) = Value(root)
           /\ \A n \in SubtreesOf(root) :
                 /\ \A a \in KeysOf(Left(n)) \cup KeysOf(Right(n)) :
                       PosIn(lastOp.val, Value(n)) < PosIn(lastOp.val, a)
                 /\ \A a \in KeysOf(Left(n)) : \A b \in KeysOf(Right(n)) :
                       PosIn(lastOp.val, a) < PosIn(lastOp.val, b)
    /\ lastOp.op = "postorder_traversal"
        => /\ ListsEveryKeyOnce(lastOp.val, root)
           /\ root # None => lastOp.val[Len(lastOp.val)] = Value(root)
           /\ \A n \in SubtreesOf(root) :
                 /\ \A a \in KeysOf(Left(n)) \cup KeysOf(Right(n)) :
                       PosIn(lastOp.val, a) < PosIn(lastOp.val, Value(n))
                 /\ \A a \in KeysOf(Left(n)) : \A b \in KeysOf(Right(n)) :
                       PosIn(lastOp.val, a) < PosIn(lastOp.val, b)

\* postorder_traversal() of a tree whose root has two children
C20_Witness ==
    /\ lastOp.op = "postorder_traversal"
    /\ Len(lastOp.val) >= 4
    /\ Left(root) # None /\ Right(root) # None

----------------------------------------------------------------------------
(* Vocabulary of positions *)

\* every key of a tree with the path of child links that leads to its node
\* from the root (0 = left, 1 = right)
RECURSIVE PathsOf(_, _)
PathsOf(node, path) ==
    IF node = None THEN {}
    ELSE {<<Value(node), path>>}
            \cup PathsOf(Left(node), Append(path, 0))
            \cup PathsOf(Right(node), Append(path, 1))

PathTo(tree, k) == (CHOOSE e \in PathsOf(tree, <<>>) : e[1] = k)[2]

\* of two different paths of one length, p is the one further to the left
LeftOf(p, q) ==
    \E i \in 1..Len(p) : SubSeq(p, 1, i - 1) = SubSeq(q, 1, i - 1) /\ p[i] < q[i]

\* p is a position that a breadth-first walk reaches before position q
BreadthFirstBefore(p, q) ==
    \/ Len(p) < Len(q)
    \/ Len(p) = Len(q) /\ LeftOf(p, q)

\* the path the key comparisons of insert follow from a node down to the
\* first missing child
RECURSIVE ComparisonPath(_, _)
ComparisonPath(node, k) ==
    IF node = None THEN <<>>
    ELSE IF k < Value(node) THEN <<0>> \o ComparisonPath(Left(node), k)
    ELSE <<1>> \o ComparisonPath(Right(node), k)

\* a tree with the childless node that holds k taken away
RECURSIVE WithoutLeaf(_, _)
WithoutLeaf(node, k) ==
    IF node = None THEN None
    ELSE IF IsLeaf(node) /\ Value(node) = k THEN None
    ELSE Node(WithoutLeaf(Left(node), k), Value(node), WithoutLeaf(Right(node), k))

----------------------------------------------------------------------------
(* Claims about level order and the frame of insert *)

\* C21: levelorder_traversal() returns the keys in breadth-first order: every
\* key exactly once, by non-decreasing depth and from left to right within a
\* depth; its loop dequeues each node exactly once and ends with an empty
\* queue; it returns [] for an empty tree.
C21_LevelorderIsBreadthFirst ==
    /\ LevelorderTraversal(None) = <<>>
    /\ root # None
        => LET run == LevelorderLoop(<<root>>, <<>>, <<>>)
           IN /\ run.queue = <<>>
              /\ SeqElems(run.dequeued) = SubtreesOf(root)
              /\ Len(run.dequeued) = Cardinality(SubtreesOf(root))
    /\ lastOp.op = "levelorder_traversal"
        => /\ root = None => lastOp.val = <<>>
           /\ ListsEveryKeyOnce(lastOp.val, root)
           /\ \A i, j \in 1..Len(lastOp.val) :
                 i < j => BreadthFirstBefore(PathTo(root, lastOp.val[i]),
                                             PathTo(root, lastOp.val[j]))

\* levelorder_traversal() of a tree of three levels whose root has two children
C21_Witness ==
    /\ lastOp.op = "levelorder_traversal"
    /\ Len(lastOp.val) >= 5
    /\ HeightRecursive(root) = 2
    /\ Left(root) # None /\ Right(root) # None

\* C22: BinarySearchTree.insert(k) of an absent key only adds one new leaf:
\* the new node has no children and hangs where the key comparisons along the
\* search path lead, and every node that existed keeps its key, its parent
\* and its depth, so the old tree is the new tree minus that leaf.
C22_BstInsertOnlyAddsALeaf ==
    [][(kind = "bst" /\ lastOp'.op = "insert" /\ lastOp'.key \notin KeysOf(root))
        => /\ \E n \in SubtreesOf(root') : Value(n) = lastOp'.key /\ IsLeaf(n)
           /\ PathsOf(root', <<>>) =
                 PathsOf(root, <<>>)
                    \cup {<<lastOp'.key, ComparisonPath(root, lastOp'.key)>>}
           /\ WithoutLeaf(root', lastOp'.key) = root]_vars

\* an insert into a plain BST that put its leaf three links below the root,
\* with a key between two others
C22_Witness ==
    /\ kind = "bst"
    /\ lastOp.op = "insert" /\ lastOp.ret = "None"
    /\ Len(PathTo(root, lastOp.key)) = 3
    /\ \E a, b \in KeysOf(root) : a < lastOp.key /\ lastOp.key < b

----------------------------------------------------------------------------
(* Claims about the linked structure *)

\* C23: in every reachable state of either engine the linked structure is a
\* proper binary tree: every node reachable from root is reachable by exactly
\* one path (no node with two parents or in both child links of one node, the
\* root nobody's child, no cycle), also after rotations and two-children
\* deletion; the objects so linked make up exactly the tree value.
C23_LinkedStructureIsAProperTree ==
    /\ ProperTree(heap, rootRef)
    /\ TreeOf(heap, rootRef) = root

\* an AVLTree insert whose new key ended at the root of three nodes: a double
\* rotation has relinked all of them
C23_Witness ==
    /\ kind = "avl"
    /\ lastOp.op = "insert" /\ lastOp.ret = "None"
    /\ Cardinality(DOMAIN heap) = 3
    /\ rootRef # NoneRef
    /\ heap[rootRef].value = lastOp.key
    /\ heap[rootRef].left # NoneRef /\ heap[rootRef].right # NoneRef

\* the object that holds key k
HolderOf(h, k) == CHOOSE n \in DOMAIN h : h[n].value = k

SetMin(S) == CHOOSE x \in S : \A y \in S : x <= y

\* the keys held by the objects below (and at) a reference
KeysBelow(h, r) == {h[q].value : q \in ReachableFrom(h, {r} \ {NoneRef})}

\* a reference after the call: the one link that led to object gone now
\* leads to heir, every other link is as it was
Relinked(ref, gone, heir) == IF ref = gone THEN heir ELSE ref

\* C29: deleting a key whose node has two children keeps that node in place
\* and overwrites its key with the smallest key of its right subtree; the
\* node unlinked is the successor node, which has no left child and is
\* replaced by its own right subtree (also when it is the direct right child
\* of the node); the left subtree and all other nodes are untouched.
C29_TwoChildrenDeletePromotesSuccessor ==
    [][(/\ lastOp'.op = "delete"
        /\ \E n \in DOMAIN heap :
              /\ heap[n].value = lastOp'.key
              /\ heap[n].left # NoneRef /\ heap[n].right # NoneRef)
        => LET node == HolderOf(heap, lastOp'.key)
               successor_key == SetMin(KeysBelow(heap, heap[node].right))
               successor == HolderOf(heap, successor_key)
           IN /\ lastOp'.ret = "True"
              /\ lastOp'.branch = "both children"
              /\ rootRef' = rootRef
              /\ DOMAIN heap' = DOMAIN heap \ {successor}
              /\ heap[successor].left = NoneRef
              /\ heap'[node].value = successor_key
              /\ heap'[node].left = heap[node].left
              /\ TreeOf(heap', heap'[node].left) = TreeOf(heap, heap[node].left)
              /\ \A q \in DOMAIN heap' :
                    /\ q # node => heap'[q].value = heap[q].value
                    /\ heap'[q].left =
                          Relinked(heap[q].left, successor, heap[successor].right)
                    /\ heap'[q].right =
                          Relinked(heap[q].right, successor, heap[successor].right)]_vars

\* a two-children delete that left at least three nodes, the promoted key in
\* a node that still has both children
C29_Witness ==
    /\ lastOp.op = "delete" /\ lastOp.ret = "True"
    /\ lastOp.branch = "both children"
    /\ Cardinality(DOMAIN heap) >= 3
    /\ \E n \in DOMAIN heap :
          /\ heap[n].left # NoneRef /\ heap[n].right # NoneRef
          /\ heap[n].value > lastOp.key
          /\ \A q \in DOMAIN heap : heap[q].value > lastOp.key => heap[q].value >= heap[n].value

\* C30: deleting a key whose node has no child replaces the link to it (its
\* parent's child link, or root) by empty; deleting a key whose node has
\* exactly one child puts that child, its subtree unchanged, into the node's
\* position; in both cases no key is overwritten and no other link changes.
C30_LeafAndOneChildDeleteRelinkOnce ==
    [][(/\ lastOp'.op = "delete"
        /\ \E n \in DOMAIN heap :
              /\ heap[n].value = lastOp'.key
              /\ heap[n].left = NoneRef \/ heap[n].right = NoneRef)
        => LET node == HolderOf(heap, lastOp'.key)
               child == IF heap[node].left # NoneRef THEN heap[node].left
                        ELSE heap[node].right
           IN /\ lastOp'.ret = "True"
              /\ lastOp'.branch =
                    IF child = NoneRef THEN "no children"
                    ELSE IF heap[node].left = NoneRef THEN "only right child"
                    ELSE "only left child"
              /\ rootRef' = Relinked(rootRef, node, child)
              /\ DOMAIN heap' = DOMAIN heap \ {node}
              /\ TreeOf(heap', child) = TreeOf(heap, child)
              /\ \A q \in DOMAIN heap' :
                    /\ heap'[q].value = heap[q].value
                    /\ heap'[q].left = Relinked(heap[q].left, node, child)
                    /\ heap'[q].right = Relinked(heap[q].right, node, child)]_vars

\* a one-child delete below the root, whose child had a child of its own
C30_Witness ==
    /\ lastOp.op = "delete" /\ lastOp.ret = "True"
    /\ lastOp.branch \in {"only left child", "only right child"}
    /\ Cardinality(DOMAIN heap) >= 3
    /\ rootRef # NoneRef
    /\ HeapHeightRecursive(heap, rootRef) = 2

----------------------------------------------------------------------------
(* task3.py: SinglyLinkedList and OptimizedSinglyLinkedList, as Node        *)
(* objects in heap linked by next, with self.head and self.tail             *)

\* the data handed to the list are 1, 2, ..., MaxItems, each once
MaxItems == 4

\* positions handed to insert_at_position and delete_at_position
Positions == (0 - 1)..(MaxItems + 1)

ItemRefs == 1..MaxItems

NewItemRef(h) == CHOOSE r \in ItemRefs \ DOMAIN h : \A q \in ItemRefs \ DOMAIN h : r <= q

\* Node(data) constructed with identity new
ListNode(h, new, data) ==
    [r \in DOMAIN h \cup {new} |->
        IF r = new THEN [data |-> data, next |-> NoneRef] ELSE h[r]]

\* the objects a set of references leads to over next
RECURSIVE LinkedFrom(_, _)
LinkedFrom(h, S) ==
    LET T == S \cup ({h[r].next : r \in S} \ {NoneRef})
    IN IF T = S THEN S ELSE LinkedFrom(h, T)

\* objects neither head nor tail leads to are freed
CollectList(h, hd, tl) ==
    LET live == LinkedFrom(h, {hd, tl} \ {NoneRef})
    IN [q \in live |-> h[q]]

\* to_list: the data from a reference on, following next
RECURSIVE ToList(_, _)
ToList(h, current) ==
    IF current = NoneRef THEN <<>>
    ELSE <<h[current].data>> \o ToList(h, h[current].next)

\* while current.next is not None: current = current.next
RECURSIVE LastNode(_, _)
LastNode(h, current) ==
    IF h[current].next = NoneRef THEN current ELSE LastNode(h, h[current].next)

\* while current.next.next is not None: current = current.next
RECURSIVE SecondLastNode(_, _)
SecondLastNode(h, current) ==
    IF h[h[current].next].next = NoneRef THEN current
    ELSE SecondLastNode(h, h[current].next)

\* the outcome of a list method: the objects, head and tail afterwards, the
\* exception raised ("" when none) and the data returned (0 when none)
Outcome(h, hd, tl, exc, data) ==
    [h |-> h, head |-> hd, tail |-> tl, exc |-> exc, data |-> data]

\* SinglyLinkedList.insert_at_beginning
InsertAtBeginning(h, hd, tl, data) ==
    LET new_node == NewItemRef(h)
    IN Outcome([ListNode(h, new_node, data) EXCEPT ![new_node].next = hd],
               new_node, tl, "", 0)

\* OptimizedSinglyLinkedList.insert_at_beginning
OptimizedInsertAtBeginning(h, hd, tl, data) ==
    LET new_node == NewItemRef(h)
    IN Outcome([ListNode(h, new_node, data) EXCEPT ![new_node].next = hd],
               new_node, IF tl = NoneRef THEN new_node ELSE tl, "", 0)

\* SinglyLinkedList.insert_at_end
InsertAtEnd(h, hd, tl, data) ==
    LET new_node == NewItemRef(h)
    IN IF hd = NoneRef THEN Outcome(ListNode(h, new_node, data), new_node, tl, "", 0)
       ELSE Outcome([ListNode(h, new_node, data) EXCEPT ![LastNode(h, hd)].next = new_node],
                    hd, tl, "", 0)

\* OptimizedSinglyLinkedList.insert_at_end
OptimizedInsertAtEnd(h, hd, tl, data) ==
    LET new_node == NewItemRef(h)
    IN IF hd = NoneRef
       THEN Outcome(ListNode(h, new_node, data), new_node, new_node, "", 0)
       ELSE IF tl = NoneRef THEN Outcome(h, hd, tl, "AttributeError", 0)
       ELSE Outcome([ListNode(h, new_node, data) EXCEPT ![tl].next = new_node],
                    hd, new_node, "", 0)

\* the for loop of insert_at_position: steps moves along next, raising when
\* current is None before a move
RECURSIVE InsertWalk(_, _, _)
InsertWalk(h, current, steps) ==
    IF steps = 0 THEN [ref |-> current, exc |-> ""]
    ELSE IF current = NoneRef THEN [ref |-> current, exc |-> "InvalidPositionError"]
    ELSE InsertWalk(h, h[current].next, steps - 1)

\* faulty variant: the walk makes position steps instead of position - 1
InsertAtPosition_OneStepTooFar(cls, h, hd, tl, data, position) ==
    IF position < 0 THEN Outcome(h, hd, tl, "InvalidPositionError", 0)
    ELSE IF position = 0 THEN
        IF cls = "OptimizedSinglyLinkedList" THEN OptimizedInsertAtBeginning(h, hd, tl, data)
        ELSE InsertAtBeginning(h, hd, tl, data)
    ELSE LET walk == InsertWalk(h, hd, position)
             new_node == NewItemRef(h)
         IN IF walk.exc # "" \/ walk.ref = NoneRef
            THEN Outcome(h, hd, tl, "InvalidPositionError", 0)
            ELSE Outcome([ListNode(h, new_node, data) EXCEPT
                              ![new_node].next = h[walk.ref].next,
                              ![walk.ref].next = new_node],
                         hd, tl, "", 0)

\* SinglyLinkedList.insert_at_position (inherited by the optimized class;
\* self.insert_at_beginning is the method of the object's class)
InsertAtPosition(cls, h, hd, tl, data, position) ==
    IF position < 0 THEN Outcome(h, hd, tl, "InvalidPositionError", 0)
    ELSE IF position = 0 THEN
        IF cls = "OptimizedSinglyLinkedList" THEN OptimizedInsertAtBeginning(h, hd, tl, data)
        ELSE InsertAtBeginning(h, hd, tl, data)
    ELSE LET walk == InsertWalk(h, hd, position - 1)
             new_node == NewItemRef(h)
         IN IF walk.exc # "" \/ walk.ref = NoneRef
            THEN Outcome(h, hd, tl, "InvalidPositionError", 0)
            ELSE Outcome([ListNode(h, new_node, data) EXCEPT
                              ![new_node].next = h[walk.ref].next,
                              ![walk.ref].next = new_node],
                         hd, tl, "", 0)

\* SinglyLinkedList.delete_at_beginning
DeleteAtBeginning(h, hd, tl) ==
    IF hd = NoneRef THEN Outcome(h, hd, tl, "EmptyListError", 0)
    ELSE Outcome(h, h[hd].next, tl, "", h[hd].data)

\* OptimizedSinglyLinkedList.delete_at_beginning
OptimizedDeleteAtBeginning(h, hd, tl) ==
    IF hd = NoneRef THEN Outcome(h, hd, tl, "EmptyListError", 0)
    ELSE Outcome(h, h[hd].next, IF h[hd].next = NoneRef THEN NoneRef ELSE tl, "",
                 h[hd].data)

\* SinglyLinkedList.delete_at_end (inherited unchanged by the optimized class)
DeleteAtEnd(h, hd, tl) ==
    IF hd = NoneRef THEN Outcome(h, hd, tl, "EmptyListError", 0)
    ELSE IF h[hd].next = NoneRef THEN Outcome(h, NoneRef, tl, "", h[hd].data)
    ELSE LET current == SecondLastNode(h, hd)
         IN Outcome([h EXCEPT ![current].next = NoneRef], hd, tl, "",
                    h[h[current].next].data)

\* the for loop of delete_at_position
RECURSIVE DeleteWalk(_, _, _)
DeleteWalk(h, current, steps) ==
    IF steps = 0 THEN [ref |-> current, exc |-> ""]
    ELSE IF current = NoneRef \/ h[current].next = NoneRef
    THEN [ref |-> current, exc |-> "InvalidPositionError"]
    ELSE DeleteWalk(h, h[current].next, steps - 1)

\* SinglyLinkedList.delete_at_position (inherited by the optimized class)
DeleteAtPosition(cls, h, hd, tl, position) ==
    IF hd = NoneRef THEN Outcome(h, hd, tl, "EmptyListError", 0)
    ELSE IF position < 0 THEN Outcome(h, hd, tl, "InvalidPositionError", 0)
    ELSE IF position = 0 THEN
        IF cls = "OptimizedSinglyLinkedList" THEN OptimizedDeleteAtBeginning(h, hd, tl)
        ELSE DeleteAtBeginning(h, hd, tl)
    ELSE LET walk == DeleteWalk(h, hd, position - 1)
         IN IF walk.exc # "" THEN Outcome(h, hd, tl, "InvalidPositionError", 0)
            ELSE IF h[walk.ref].next = NoneRef
            THEN Outcome(h, hd, tl, "InvalidPositionError", 0)
            ELSE Outcome([h EXCEPT ![walk.ref].next = h[h[walk.ref].next].next],
                         hd, tl, "", h[h[walk.ref].next].data)

\* the while loop of reverse: the heap and prev when current is None
RECURSIVE ReverseLoop(_, _, _)
ReverseLoop(h, prev, current) ==
    IF current = NoneRef THEN [h |-> h, prev |-> prev]
    ELSE ReverseLoop([h EXCEPT ![current].next = prev], current, h[current].next)

\* SinglyLinkedList.reverse (inherited unchanged by the optimized class)
Reverse(h, hd, tl) ==
    IF hd = NoneRef \/ h[hd].next = NoneRef THEN Outcome(h, hd, tl, "", 0)
    ELSE LET done == ReverseLoop(h, NoneRef, hd)
         IN Outcome(done.h, done.prev, tl, "", 0)

\* SinglyLinkedList.clear / OptimizedSinglyLinkedList.clear
ClearList(cls, h, hd, tl) ==
    IF cls = "OptimizedSinglyLinkedList" THEN Outcome(h, NoneRef, NoneRef, "", 0)
    ELSE Outcome(h, NoneRef, tl, "", 0)

\* what a call on a list leaves alone
offList == <<kind, root, rootRef, items, deque, front, rear, size, max_size,
              statistics>>

InitList ==
    /\ kind \in {"SinglyLinkedList", "OptimizedSinglyLinkedList"}
    /\ root = None
    /\ lastOp = [op |-> "init", key |-> 0, ret |-> "None"]
    /\ NothingElse

\* a call that hands a new item to the list
ListTakes(op, position, res) ==
    /\ heap' = CollectList(res.h, res.head, res.tail)
    /\ head' = res.head
    /\ tail' = res.tail
    /\ lastOp' = [op |-> op, key |-> position, ret |-> RetOfInsert(res.exc),
                  data |-> clock + 1]
    /\ clock' = clock + 1
    /\ UNCHANGED offList

\* a call that returns data or raises
ListGives(op, position, res) ==
    /\ heap' = CollectList(res.h, res.head, res.tail)
    /\ head' = res.head
    /\ tail' = res.tail
    /\ lastOp' = [op |-> op, key |-> position,
                  ret |-> IF res.exc # "" THEN res.exc ELSE "value", val |-> res.data]
    /\ UNCHANGED <<clock, offList>>

InsertAtBeginningCall ==
    /\ clock < MaxItems
    /\ ListTakes("insert_at_beginning", 0,
                 IF kind = "OptimizedSinglyLinkedList"
                 THEN OptimizedInsertAtBeginning(heap, head, tail, clock + 1)
                 ELSE InsertAtBeginning(heap, head, tail, clock + 1))

InsertAtEndCall ==
    /\ clock < MaxItems
    /\ ListTakes("insert_at_end", 0,
                 IF kind = "OptimizedSinglyLinkedList"
                 THEN OptimizedInsertAtEnd(heap, head, tail, clock + 1)
                 ELSE InsertAtEnd(heap, head, tail, clock + 1))

InsertAtPositionCall(position) ==
    /\ clock < MaxItems
    /\ ListTakes("insert_at_position", position,
                 InsertAtPosition(kind, heap, head, tail, clock + 1, position))

DeleteAtBeginningCall ==
    ListGives("delete_at_beginning", 0,
              IF kind = "OptimizedSinglyLinkedList"
              THEN OptimizedDeleteAtBeginning(heap, head, tail)
              ELSE DeleteAtBeginning(heap, head, tail))

DeleteAtEndCall == ListGives("delete_at_end", 0, DeleteAtEnd(heap, head, tail))

DeleteAtPositionCall(position) ==
    ListGives("delete_at_position", position,
              DeleteAtPosition(kind, heap, head, tail, position))

ReverseCall ==
    LET res == Reverse(heap, head, tail)
    IN /\ heap' = CollectList(res.h, res.head, res.tail)
       /\ head' = res.head
       /\ tail' = res.tail
       /\ lastOp' = [op |-> "reverse", key |-> 0, ret |-> "None"]
       /\ UNCHANGED <<clock, offList>>

ClearListCall ==
    LET res == ClearList(kind, heap, head, tail)
    IN /\ heap' = CollectList(res.h, res.head, res.tail)
       /\ head' = res.head
       /\ tail' = res.tail
       /\ lastOp' = [op |-> "clear", key |-> 0, ret |-> "None"]
       /\ UNCHANGED <<clock, offList>>

NextList ==
    \/ InsertAtBeginningCall
    \/ InsertAtEndCall
    \/ \E position \in Positions : InsertAtPositionCall(position)
    \/ DeleteAtBeginningCall
    \/ DeleteAtEndCall
    \/ \E position \in Positions : DeleteAtPositionCall(position)
    \/ ReverseCall
    \/ ClearListCall

SpecList == InitList /\ [][NextList]_vars

----------------------------------------------------------------------------
(* Claims about the linked lists *)

\* C24 (as claimed; refuted by the code): after any sequence of
\* OptimizedSinglyLinkedList operations, insert_at_end(x) adds x at the end:
\* to_list() becomes the previous to_list() followed by x and len() grows by 1.
C24_OptimizedInsertAtEndAppends ==
    [][(kind = "OptimizedSinglyLinkedList" /\ lastOp'.op = "insert_at_end")
        => /\ ToList(heap', head') = Append(ToList(heap, head), lastOp'.data)
           /\ Len(ToList(heap', head')) = Len(ToList(heap, head)) + 1]_vars

\* C28: SinglyLinkedList.insert_at_position(data, p) on a list of length n
\* succeeds exactly when 0 <= p <= n, and then data is at index p of
\* to_list() with the other elements in their previous order; for p < 0 or
\* p > n it raises InvalidPositionError and the list is unchanged.
C28_InsertAtPositionBounds ==
    [][(kind = "SinglyLinkedList" /\ lastOp'.op = "insert_at_position")
        => LET before == ToList(heap, head)
               after == ToList(heap', head')
               n == Len(before)
               p == lastOp'.key
           IN IF 0 <= p /\ p <= n
              THEN /\ lastOp'.ret = "None"
                   /\ Len(after) = n + 1
                   /\ after[p + 1] = lastOp'.data
                   /\ after = SubSeq(before, 1, p) \o <<lastOp'.data>>
                                 \o SubSeq(before, p + 1, n)
              ELSE /\ lastOp'.ret = "InvalidPositionError"
                   /\ after = before
                   /\ heap' = heap /\ head' = head]_vars

\* an insert_at_position strictly inside a list of at least three items
C28_Witness ==
    /\ kind = "SinglyLinkedList"
    /\ lastOp.op = "insert_at_position" /\ lastOp.ret = "None"
    /\ lastOp.key >= 1
    /\ Len(ToList(heap, head)) >= 3
    /\ lastOp.key + 1 < Len(ToList(heap, head))
    /\ ToList(heap, head)[lastOp.key + 1] = lastOp.data

----------------------------------------------------------------------------
(* task2.py: Queue (a list), OptimizedQueue (a deque) and LinkedListQueue   *)
(* (Node objects in heap linked by next), given the same calls side by side *)

\* the outcome of a queue method: what it returns or raises
Gave(val) == [ret |-> "value", val |-> val]

GaveNone == [ret |-> "None", val |-> 0]

Raised(exc) == [ret |-> exc, val |-> 0]

\* Queue: items.append(item), items.pop(0), items[0], len(items), items.clear()
QueueEnqueue(its, item) == [items |-> Append(its, item), out |-> GaveNone]

QueueIsEmpty(its) == Len(its) = 0

QueueDequeue(its) ==
    IF QueueIsEmpty(its) THEN [items |-> its, out |-> Raised("QueueUnderflowError")]
    ELSE [items |-> Tail(its), out |-> Gave(Head(its))]

QueuePeek(its) ==
    IF QueueIsEmpty(its) THEN Raised("QueueEmptyError") ELSE Gave(its[1])

QueueSize(its) == Len(its)

\* OptimizedQueue: items.append(item), items.popleft(), items[0], len(items)
OptimizedEnqueue(dq, item) == [items |-> dq \o <<item>>, out |-> GaveNone]

OptimizedIsEmpty(dq) == Len(dq) = 0

OptimizedDequeue(dq) ==
    IF OptimizedIsEmpty(dq) THEN [items |-> dq, out |-> Raised("QueueUnderflowError")]
    ELSE [items |-> SubSeq(dq, 2, Len(dq)), out |-> Gave(dq[1])]

OptimizedPeek(dq) ==
    IF OptimizedIsEmpty(dq) THEN Raised("QueueEmptyError") ELSE Gave(dq[1])

OptimizedSize(dq) == Len(dq)

\* task2's Node(data) constructed with identity new
QueueNode(h, new, data) ==
    [r \in DOMAIN h \cup {new} |->
        IF r = new THEN [data |-> data, next |-> NoneRef] ELSE h[r]]

\* the fields of a LinkedListQueue and the outcome of the call
Linked(h, fr, rr, sz, out) ==
    [h |-> h, front |-> fr, rear |-> rr, size |-> sz, out |-> out]

LinkedIsEmpty(fr) == fr = NoneRef

LinkedEnqueue(h, fr, rr, sz, item) ==
    LET new_node == NewItemRef(h)
    IN IF rr = NoneRef
       THEN Linked(QueueNode(h, new_node, item), new_node, new_node, sz + 1, GaveNone)
       ELSE Linked([QueueNode(h, new_node, item) EXCEPT ![rr].next = new_node],
                   fr, new_node, sz + 1, GaveNone)

\* faulty variant: rear is not reset when the last node is dequeued
LinkedDequeue_KeepsRear(h, fr, rr, sz) ==
    IF LinkedIsEmpty(fr) THEN Linked(h, fr, rr, sz, Raised("QueueUnderflowError"))
    ELSE Linked(h, h[fr].next, rr, sz - 1, Gave(h[fr].data))

LinkedDequeue(h, fr, rr, sz) ==
    IF LinkedIsEmpty(fr) THEN Linked(h, fr, rr, sz, Raised("QueueUnderflowError"))
    ELSE Linked(h, h[fr].next,
                IF LinkedIsEmpty(h[fr].next) THEN NoneRef ELSE rr,
                sz - 1, Gave(h[fr].data))

LinkedPeek(h, fr) ==
    IF LinkedIsEmpty(fr) THEN Raised("QueueEmptyError") ELSE Gave(h[fr].data)

LinkedSize(sz) == sz

LinkedClear(h) == Linked(h, NoneRef, NoneRef, 0, GaveNone)

\* what a call on the queues leaves alone
offQueues == <<kind, root, rootRef, head, tail, max_size, statistics>>

InitQueues ==
    /\ kind = "Queue, OptimizedQueue, LinkedListQueue"
    /\ root = None
    /\ lastOp = [op |-> "init", key |-> 0, ret |-> "None"]
    /\ NothingElse

\* the call made on the three queues and what each of them answered
Answers(op, item, q, o, l) ==
    lastOp' = [op |-> op, key |-> item, ret |-> q.ret, val |-> q.val, all |-> <<q, o, l>>]

EnqueueCall ==
    /\ clock < MaxItems
    /\ LET item == clock + 1
           q == QueueEnqueue(items, item)
           o == OptimizedEnqueue(deque, item)
           l == LinkedEnqueue(heap, front, rear, size, item)
       IN /\ items' = q.items
          /\ deque' = o.items
          /\ heap' = CollectList(l.h, l.front, l.rear)
          /\ front' = l.front /\ rear' = l.rear /\ size' = l.size
          /\ Answers("enqueue", item, q.out, o.out, l.out)
    /\ clock' = clock + 1
    /\ UNCHANGED offQueues

DequeueCall ==
    /\ LET q == QueueDequeue(items)
           o == OptimizedDequeue(deque)
           l == LinkedDequeue(heap, front, rear, size)
       IN /\ items' = q.items
          /\ deque' = o.items
          /\ heap' = CollectList(l.h, l.front, l.rear)
          /\ front' = l.front /\ rear' = l.rear /\ size' = l.size
          /\ Answers("dequeue", 0, q.out, o.out, l.out)
    /\ UNCHANGED <<clock, offQueues>>

PeekCall ==
    /\ Answers("peek", 0, QueuePeek(items), OptimizedPeek(deque), LinkedPeek(heap, front))
    /\ UNCHANGED <<items, deque, heap, front, rear, size, clock, offQueues>>

SizeCall ==
    /\ Answers("size", 0, Gave(QueueSize(items)), Gave(OptimizedSize(deque)),
               Gave(LinkedSize(size)))
    /\ UNCHANGED <<items, deque, heap, front, rear, size, clock, offQueues>>

QueueIsEmptyCall ==
    /\ Answers("is_empty", 0, Gave(QueueIsEmpty(items)), Gave(OptimizedIsEmpty(deque)),
               Gave(LinkedIsEmpty(front)))
    /\ UNCHANGED <<items, deque, heap, front, rear, size, clock, offQueues>>

QueueClearCall ==
    /\ LET l == LinkedClear(heap)
       IN /\ items' = <<>>
          /\ deque' = <<>>
          /\ heap' = CollectList(l.h, l.front, l.rear)
          /\ front' = l.front /\ rear' = l.rear /\ size' = l.size
          /\ Answers("clear", 0, GaveNone, GaveNone, l.out)
    /\ UNCHANGED <<clock, offQueues>>

NextQueues ==
    \/ EnqueueCall
    \/ DequeueCall
    \/ PeekCall
    \/ SizeCall
    \/ QueueIsEmptyCall
    \/ QueueClearCall

SpecQueues == InitQueues /\ [][NextQueues]_vars

----------------------------------------------------------------------------
(* Claims about the queues *)

\* the items 1, 2, ... are handed over in this order, so the older of two
\* items is the smaller one; the items waiting are the ones in the list
\* of the basic Queue
Waiting == SeqElems(items)

\* C25: Queue, OptimizedQueue and LinkedListQueue are FIFO and
\* observationally equivalent: under the same sequence of enqueue, dequeue,
\* peek, size, is_empty and clear calls each dequeue returns the oldest item
\* not yet dequeued, and the three return the same values, sizes and errors
\* (QueueUnderflowError on dequeue of empty, QueueEmptyError on peek of
\* empty, the state unchanged by the failed call).
C25_QueuesAreFifoAndEquivalent ==
    [][lastOp'.op \in {"enqueue", "dequeue", "peek", "size", "is_empty", "clear"}
        => /\ lastOp'.all[1] = lastOp'.all[2]
           /\ lastOp'.all[2] = lastOp'.all[3]
           /\ deque' = items'
           /\ ToList(heap', front') = items'
           /\ size' = Len(items')
           /\ lastOp'.op = "enqueue"
                => SeqElems(items') = Waiting \cup {lastOp'.key}
           /\ lastOp'.op = "dequeue"
                => IF Waiting = {}
                   THEN /\ lastOp'.ret = "QueueUnderflowError"
                        /\ UNCHANGED <<items, deque, heap, front, rear, size>>
                   ELSE /\ lastOp'.ret = "value"
                        /\ lastOp'.val = SetMin(Waiting)
                        /\ SeqElems(items') = Waiting \ {lastOp'.val}
           /\ lastOp'.op = "peek"
                => /\ IF Waiting = {} THEN lastOp'.ret = "QueueEmptyError"
                      ELSE lastOp'.ret = "value" /\ lastOp'.val = SetMin(Waiting)
                   /\ UNCHANGED <<items, deque, heap, front, rear, size>>
           /\ lastOp'.op = "size"
                => lastOp'.val = Cardinality(Waiting)
           /\ lastOp'.op = "is_empty"
                => (lastOp'.val <=> Waiting = {})
           /\ lastOp'.op = "clear"
                => SeqElems(items') = {}]_vars

\* a dequeue that returned the second or a later item while a younger item
\* is still waiting, the linked queue answering like the others
C25_Witness ==
    /\ lastOp.op = "dequeue" /\ lastOp.ret = "value"
    /\ lastOp.val >= 2
    /\ lastOp.val = clock - Len(items)
    /\ Len(items) >= 1
    /\ lastOp.all[3].val = lastOp.val

----------------------------------------------------------------------------
(* task2.py BoundedQueue and task1.py BoundedStack: a list and max_size     *)

\* the capacities a bounded container is built with are 0..MaxCapacity
MaxCapacity == 3

\* the items handed to a bounded container
Data == 1..MaxItems

\* Stack: items.append(item), items.pop(), len(items)
StackPush(its, item) == [items |-> Append(its, item), out |-> GaveNone]

StackIsEmpty(its) == Len(its) = 0

StackPop(its) ==
    IF StackIsEmpty(its) THEN [items |-> its, out |-> Raised("StackUnderflowError")]
    ELSE [items |-> SubSeq(its, 1, Len(its) - 1), out |-> Gave(its[Len(its)])]

StackSize(its) == Len(its)

\* faulty variant: the test is > instead of >=
BoundedEnqueue_OneTooMany(its, max, item) ==
    IF Len(its) > max THEN [items |-> its, out |-> Raised("QueueOverflowError")]
    ELSE QueueEnqueue(its, item)

\* BoundedQueue.enqueue
BoundedEnqueue(its, max, item) ==
    IF Len(its) >= max THEN [items |-> its, out |-> Raised("QueueOverflowError")]
    ELSE QueueEnqueue(its, item)

\* BoundedStack.push
BoundedPush(its, max, item) ==
    IF Len(its) >= max THEN [items |-> its, out |-> Raised("StackOverflowError")]
    ELSE StackPush(its, item)

\* BoundedQueue.is_full / BoundedStack.is_full
IsFull(its, max) == Len(its) = max

\* what a call on a bounded container leaves alone
offBounded == <<kind, root, heap, rootRef, head, tail, deque, front, rear, size, max_size,
                clock, statistics>>

\* BoundedQueue(max_size) or BoundedStack(max_size)
InitBounded ==
    /\ kind \in {"BoundedQueue", "BoundedStack"}
    /\ root = None
    /\ lastOp = [op |-> "init", key |-> 0, ret |-> "None"]
    /\ heap = <<>> /\ rootRef = NoneRef
    /\ head = NoneRef /\ tail = NoneRef
    /\ items = <<>> /\ deque = <<>>
    /\ front = NoneRef /\ rear = NoneRef /\ size = 0
    /\ max_size \in 0..MaxCapacity
    /\ clock = 0
    /\ statistics = NoStatistics

BoundedAnswers(op, item, out) ==
    lastOp' = [op |-> op, key |-> item, ret |-> out.ret, val |-> out.val]

\* enqueue(item) on the queue, push(item) on the stack
PutCall(item) ==
    /\ LET res == IF kind = "BoundedQueue" THEN BoundedEnqueue(items, max_size, item)
                  ELSE BoundedPush(items, max_size, item)
       IN /\ items' = res.items
          /\ BoundedAnswers(IF kind = "BoundedQueue" THEN "enqueue" ELSE "push", item,
                            res.out)
    /\ UNCHANGED offBounded

\* dequeue() on the queue, pop() on the stack
TakeCall ==
    /\ LET res == IF kind = "BoundedQueue" THEN QueueDequeue(items) ELSE StackPop(items)
       IN /\ items' = res.items
          /\ BoundedAnswers(IF kind = "BoundedQueue" THEN "dequeue" ELSE "pop", 0, res.out)
    /\ UNCHANGED offBounded

IsFullCall ==
    /\ BoundedAnswers("is_full", 0, Gave(IsFull(items, max_size)))
    /\ UNCHANGED <<items, offBounded>>

BoundedSizeCall ==
    /\ BoundedAnswers("size", 0,
                      Gave(IF kind = "BoundedQueue" THEN QueueSize(items)
                           ELSE StackSize(items)))
    /\ UNCHANGED <<items, offBounded>>

BoundedClearCall ==
    /\ items' = <<>>
    /\ BoundedAnswers("clear", 0, GaveNone)
    /\ UNCHANGED offBounded

NextBounded ==
    \/ \E item \in Data : PutCall(item)
    \/ TakeCall
    \/ IsFullCall
    \/ BoundedSizeCall
    \/ BoundedClearCall

SpecBounded == InitBounded /\ [][NextBounded]_vars

----------------------------------------------------------------------------
(* Claims about the bounded containers *)

\* C26: for BoundedQueue and BoundedStack built with max_size >= 0, size()
\* never exceeds max_size; enqueue/push when size() = max_size raises
\* QueueOverflowError/StackOverflowError and leaves the contents unchanged;
\* is_full() is True exactly when no further enqueue/push can succeed.
C26_BoundedNeverExceedsMaxSize ==
    /\ [](Len(items) <= max_size)
    /\ [][/\ lastOp'.op = "size" => lastOp'.val <= max_size
          /\ (lastOp'.op \in {"enqueue", "push"} /\ Len(items) = max_size)
                => /\ lastOp'.ret = IF lastOp'.op = "enqueue" THEN "QueueOverflowError"
                                    ELSE "StackOverflowError"
                   /\ items' = items
          /\ (lastOp'.op \in {"enqueue", "push"} /\ Len(items) < max_size)
                => /\ lastOp'.ret = "None"
                   /\ Len(items') = Len(items) + 1
          /\ lastOp'.op = "is_full"
                => /\ lastOp'.val <=> Len(items) = max_size
                   /\ lastOp'.val <=>
                         \A item \in Data :
                            /\ BoundedEnqueue(items, max_size, item).out.ret # "None"
                            /\ BoundedPush(items, max_size, item).out.ret # "None"]_vars

\* a push refused by a full stack of capacity 2
C26_Witness ==
    /\ kind = "BoundedStack"
    /\ max_size = 2
    /\ lastOp.op = "push" /\ lastOp.ret = "StackOverflowError"
    /\ Len(items) = 2
    /\ lastOp.key \notin SeqElems(items)

----------------------------------------------------------------------------
(* task2.py PriorityQueue: a list of (priority, item) tuples, sorted after  *)
(* every append                                                             *)

\* priorities handed to enqueue are 1..MaxPriority
MaxPriority == 3

Priorities == 1..MaxPriority

\* faulty variant: an entry goes in front of the entries of equal priority
RECURSIVE SortedInsert_BeforeEquals(_, _)
SortedInsert_BeforeEquals(sorted, entry) ==
    IF sorted = <<>> THEN <<entry>>
    ELSE IF entry[1] <= Head(sorted)[1] THEN <<entry>> \o sorted
    ELSE <<Head(sorted)>> \o SortedInsert_BeforeEquals(Tail(sorted), entry)

\* one entry put into a list sorted by priority, behind the entries whose
\* priority is not larger
RECURSIVE SortedInsert(_, _)
SortedInsert(sorted, entry) ==
    IF sorted = <<>> THEN <<entry>>
    ELSE IF entry[1] < Head(sorted)[1] THEN <<entry>> \o sorted
    ELSE <<Head(sorted)>> \o SortedInsert(Tail(sorted), entry)

\* items.sort(key=lambda x: x[0]): a stable sort by the priority alone,
\* entries of equal priority keep the order they have in the list
RECURSIVE SortByPriority(_)
SortByPriority(its) ==
    IF its = <<>> THEN <<>>
    ELSE SortedInsert(SortByPriority(SubSeq(its, 1, Len(its) - 1)), its[Len(its)])

\* PriorityQueue.enqueue
PriorityEnqueue(its, item, priority) ==
    [items |-> SortByPriority(Append(its, <<priority, item>>)), out |-> GaveNone]

\* PriorityQueue.dequeue
PriorityDequeue(its) ==
    IF Len(its) = 0 THEN [items |-> its, out |-> Raised("QueueUnderflowError")]
    ELSE [items |-> Tail(its), out |-> Gave(Head(its)[2])]

\* PriorityQueue.peek
PriorityPeek(its) ==
    IF Len(its) = 0 THEN Raised("QueueEmptyError") ELSE Gave(its[1][2])

\* what a call on the priority queue leaves alone
offPriority == <<kind, root, heap, rootRef, head, tail, deque, front, rear, size, max_size,
                  statistics>>

InitPriority ==
    /\ kind = "PriorityQueue"
    /\ root = None
    /\ lastOp = [op |-> "init", key |-> 0, ret |-> "None"]
    /\ NothingElse

PriorityEnqueueCall(priority) ==
    /\ clock < MaxItems
    /\ LET res == PriorityEnqueue(items, clock + 1, priority)
       IN /\ items' = res.items
          /\ lastOp' = [op |-> "enqueue", key |-> clock + 1, ret |-> res.out.ret,
                        val |-> res.out.val, priority |-> priority]
    /\ clock' = clock + 1
    /\ UNCHANGED offPriority

PriorityDequeueCall ==
    /\ LET res == PriorityDequeue(items)
       IN /\ items' = res.items
          /\ lastOp' = [op |-> "dequeue", key |-> 0, ret |-> res.out.ret,
                        val |-> res.out.val]
    /\ UNCHANGED <<clock, offPriority>>

PriorityPeekCall ==
    /\ LET out == PriorityPeek(items)
       IN lastOp' = [op |-> "peek", key |-> 0, ret |-> out.ret, val |-> out.val]
    /\ UNCHANGED <<items, clock, offPriority>>

PriorityClearCall ==
    /\ items' = <<>>
    /\ lastOp' = [op |-> "clear", key |-> 0, ret |-> "None", val |-> 0]
    /\ UNCHANGED <<clock, offPriority>>

NextPriority ==
    \/ \E priority \in Priorities : PriorityEnqueueCall(priority)
    \/ PriorityDequeueCall
    \/ PriorityPeekCall
    \/ PriorityClearCall

SpecPriority == InitPriority /\ [][NextPriority]_vars

----------------------------------------------------------------------------
(* Claims about the priority queue *)

\* the items are 1, 2, ... in the order of their enqueue calls: entry a is
\* served before entry b when its priority number is smaller or, at equal
\* priority, it was enqueued earlier
ServedBefore(a, b) == a[1] < b[1] \/ (a[1] = b[1] /\ a[2] < b[2])

\* the entry of the waiting ones that is served before all others
FirstServed(entries) ==
    CHOOSE a \in entries : \A b \in entries \ {a} : ServedBefore(a, b)

\* the items returned by dequeue() called until the queue is empty
RECURSIVE Drain(_)
Drain(its) ==
    IF Len(its) = 0 THEN <<>>
    ELSE <<PriorityDequeue(its).out.val>> \o Drain(PriorityDequeue(its).items)

\* the entry that holds an item
EntryOf(its, item) == CHOOSE e \in SeqElems(its) : e[2] = item

\* C27: PriorityQueue.dequeue() and peek() return an item whose priority
\* number is the smallest among the items in the queue, and among items of
\* equal priority the one enqueued earliest; so dequeuing to empty yields
\* the items sorted by (priority, enqueue order).
C27_PriorityThenFifo ==
    /\ [](LET order == Drain(items)
          IN /\ Len(order) = Len(items)
             /\ \A i, j \in 1..Len(order) :
                   i < j => ServedBefore(EntryOf(items, order[i]), EntryOf(items, order[j])))
    /\ [][/\ lastOp'.op = "enqueue"
                => /\ Len(items') = Len(items) + 1
                   /\ SeqElems(items') =
                         SeqElems(items) \cup {<<lastOp'.priority, lastOp'.key>>}
          /\ (lastOp'.op = "dequeue" /\ Len(items) > 0)
                => /\ lastOp'.ret = "value"
                   /\ lastOp'.val = FirstServed(SeqElems(items))[2]
                   /\ SeqElems(items') = SeqElems(items) \ {FirstServed(SeqElems(items))}
                   /\ Len(items') = Len(items) - 1
          /\ (lastOp'.op = "peek" /\ Len(items) > 0)
                => /\ lastOp'.ret = "value"
                   /\ lastOp'.val = FirstServed(SeqElems(items))[2]
                   /\ items' = items]_vars

\* a dequeue that served an item while an item enqueued before it and an
\* item enqueued after it are still waiting: priority went before age
C27_Witness ==
    /\ lastOp.op = "dequeue" /\ lastOp.ret = "value"
    /\ \E e \in SeqElems(items) : e[2] < lastOp.val
    /\ \E e \in SeqElems(items) : e[2] > lastOp.val

----------------------------------------------------------------------------
(* AVLTree._rotate_left and _rotate_right applied on their own to a node of *)
(* the linked tree, the returned node stored where the callers store it     *)

\* the caller's assignment of the returned node: self.root = ..., node.left
\* = ... or node.right = ..., whichever link led to the rotated node was
StoredBack(h, r, was, res) ==
    IF res.exc # "" THEN [h |-> h, ref |-> r]
    ELSE IF r = was THEN [h |-> res.h, ref |-> res.ref]
    ELSE LET parent == CHOOSE q \in DOMAIN h : h[q].left = was \/ h[q].right = was
         IN [h |-> IF h[parent].left = was
                   THEN [res.h EXCEPT ![parent].left = res.ref]
                   ELSE [res.h EXCEPT ![parent].right = res.ref],
             ref |-> r]

\* the same rotation on the tree value: the subtree of the node that holds k
\* is replaced by what the rotation returns
RECURSIVE RotateHolder(_, _, _)
RotateHolder(node, k, op) ==
    IF node = None THEN None
    ELSE IF k < Value(node)
    THEN Node(RotateHolder(Left(node), k, op), Value(node), Right(node))
    ELSE IF k > Value(node)
    THEN Node(Left(node), Value(node), RotateHolder(Right(node), k, op))
    ELSE IF op = "_rotate_left" THEN RotateLeft(node).t
    ELSE RotateRight(node).t

RotateCall(op, k, res) ==
    /\ kind = "avl"
    /\ LET after == StoredBack(heap, rootRef, HolderOf(heap, k), res)
       IN /\ heap' = after.h
          /\ rootRef' = after.ref
    /\ root' = RotateHolder(root, k, op)
    /\ lastOp' = [op |-> op, key |-> k,
                  ret |-> IF res.exc = "" THEN "node" ELSE res.exc]
    /\ UNCHANGED <<kind, offHeap>>

RotateLeftCall(k) ==
    /\ k \in KeysBelow(heap, rootRef)
    /\ RotateCall("_rotate_left", k, HeapRotateLeft(heap, HolderOf(heap, k)))

RotateRightCall(k) ==
    /\ k \in KeysBelow(heap, rootRef)
    /\ RotateCall("_rotate_right", k, HeapRotateRight(heap, HolderOf(heap, k)))

\* the trees rotated are grown by insert calls; a rotation of any node of
\* them gives every shape a rotation can meet
NextRotate ==
    \/ \E k \in HeapKeys : HeapAvlInsert(k)
    \/ \E k \in HeapKeys : RotateLeftCall(k)
    \/ \E k \in HeapKeys : RotateRightCall(k)

SpecRotate == InitAvl /\ [][NextRotate]_vars

\* C31: _rotate_left on a node X with right child Y returns Y; afterwards X
\* is Y's left child and Y's former left subtree is X's right subtree, X's
\* left and Y's right link are unchanged, and so is every link of every
\* other node except the one that led to X, which now leads to Y
\* (_rotate_right is the mirror image); no key moves between nodes and the
\* inorder key sequence of the rotated subtree is the same before and after.
C31_RotationRelinksThreeLinks ==
    [][(/\ lastOp'.op \in {"_rotate_left", "_rotate_right"}
        /\ LET X == HolderOf(heap, lastOp'.key)
           IN IF lastOp'.op = "_rotate_left" THEN heap[X].right # NoneRef
              ELSE heap[X].left # NoneRef)
        => LET X == HolderOf(heap, lastOp'.key)
               leftward == lastOp'.op = "_rotate_left"
               Y == IF leftward THEN heap[X].right ELSE heap[X].left
               inner == IF leftward THEN heap[Y].left ELSE heap[Y].right
           IN /\ lastOp'.ret = "node"
              /\ rootRef' = Relinked(rootRef, X, Y)
              /\ DOMAIN heap' = DOMAIN heap
              /\ \A q \in DOMAIN heap : heap'[q].value = heap[q].value
              /\ IF leftward
                 THEN /\ heap'[Y].left = X /\ heap'[Y].right = heap[Y].right
                      /\ heap'[X].right = inner /\ heap'[X].left = heap[X].left
                 ELSE /\ heap'[Y].right = X /\ heap'[Y].left = heap[Y].left
                      /\ heap'[X].left = inner /\ heap'[X].right = heap[X].right
              /\ \A q \in DOMAIN heap \ {X, Y} :
                    /\ heap'[q].left = Relinked(heap[q].left, X, Y)
                    /\ heap'[q].right = Relinked(heap[q].right, X, Y)
              /\ InorderRecursive(TreeOf(heap', Y)) = InorderRecursive(TreeOf(heap, X))
              /\ TreeOf(heap', rootRef') = root'
              /\ ProperTree(heap', rootRef')]_vars

\* a left rotation below the root in a tree of four nodes: the demoted node
\* took over a subtree from the node that replaced it, and that node hangs
\* below a third one
C31_Witness ==
    /\ lastOp.op = "_rotate_left" /\ lastOp.ret = "node"
    /\ Cardinality(DOMAIN heap) = 4
    /\ \E X, Y, P \in DOMAIN heap :
          /\ heap[X].value = lastOp.key
          /\ heap[X].right # NoneRef
          /\ heap[Y].left = X
          /\ heap[P].left = Y \/ heap[P].right = Y

----------------------------------------------------------------------------
(* AVLTree.insert with the calls of _balance it makes written down          *)

\* the calls of _balance made while _insert_avl unwinds, the deepest first:
\* the subtree each call was handed (the link to the child below already
\* assigned), the subtree it returned and the exception it raised; an
\* exception from below ends the unwind, so no call is made above it
RECURSIVE BalanceCalls(_, _)
BalanceCalls(node, value) ==
    IF node = None THEN <<>>
    ELSE IF value = Value(node) THEN <<>>
    ELSE LET child == IF value < Value(node) THEN Left(node) ELSE Right(node)
             sub == InsertAvl(child, value)
             here == IF value < Value(node)
                     THEN Node(sub.t, Value(node), Right(node))
                     ELSE Node(Left(node), Value(node), sub.t)
             res == Balance(here)
         IN IF sub.exc # "" THEN BalanceCalls(child, value)
            ELSE Append(BalanceCalls(child, value),
                        [node |-> here, ret |-> res.t, exc |-> res.exc])

TracedAvlInsert(k) ==
    /\ kind = "avl"
    /\ LET res == AvlInsertResult(root, k)
       IN /\ root' = res.t
          /\ lastOp' = [op |-> "insert", key |-> k, ret |-> RetOfInsert(res.exc),
                        calls |-> BalanceCalls(root, k)]
    /\ UNCHANGED <<kind, offTree>>

NextUnwind ==
    \/ \E k \in AvlKeys : TracedAvlInsert(k)
    \/ \E k \in AvlKeys : Delete(k)
    \/ Clear

SpecUnwind == InitAvl /\ [][NextUnwind]_vars

----------------------------------------------------------------------------
(* Claims about the unwind of AVLTree.insert *)

\* height(left) - height(right) of a node that exists
HeightDifference(node) == HeightRecursive(Left(node)) - HeightRecursive(Right(node))

\* the subtree on the side of node where key k belongs
SideOf(node, k) == IF k < Value(node) THEN Left(node) ELSE Right(node)

\* the calls of _balance of the last insert that returned another node than
\* the one they were handed
Rotated(calls) == {i \in DOMAIN calls : calls[i].ret # calls[i].node}

\* C32: while AVLTree.insert unwinds, _balance is called at each ancestor X
\* of the new leaf, deepest first, each on the subtree that holds what the
\* call below returned; with bf = height(left) - height(right): if bf > 1 and
\* bf(X.left) < 0, X.left is rotated left and X rotated right, so X.left.right
\* becomes the subtree root; if bf > 1 and bf(X.left) >= 0 only X is rotated
\* right; if bf < -1 and bf(X.right) > 0, X.right is rotated right and X
\* rotated left; if bf < -1 and bf(X.right) <= 0 only X is rotated left; if
\* |bf| <= 1 the subtree at X is returned as it is.
C32_BalanceCases ==
    (kind = "avl" /\ lastOp.op = "insert")
    => LET calls == lastOp.calls
       IN /\ \A i \in DOMAIN calls :
                LET X == calls[i].node
                    ret == calls[i].ret
                    bf == HeightDifference(X)
                    L == Left(X)
                    R == Right(X)
                IN /\ (bf > 1 /\ HeightDifference(L) < 0)
                      => ret = Node(Node(Left(L), Value(L), Left(Right(L))),
                                    Value(Right(L)),
                                    Node(Right(Right(L)), Value(X), R))
                   /\ (bf > 1 /\ HeightDifference(L) >= 0)
                      => ret = Node(Left(L), Value(L), Node(Right(L), Value(X), R))
                   /\ (bf < -1 /\ HeightDifference(R) > 0)
                      => ret = Node(Node(L, Value(X), Left(Left(R))),
                                    Value(Left(R)),
                                    Node(Right(Left(R)), Value(R), Right(R)))
                   /\ (bf < -1 /\ HeightDifference(R) <= 0)
                      => ret = Node(Node(L, Value(X), Left(R)), Value(R), Right(R))
                   /\ (bf >= -1 /\ bf <= 1) => ret = X
          /\ \A i \in DOMAIN calls :
                /\ lastOp.key \in KeysOf(calls[i].node)
                /\ i < Len(calls) => SideOf(calls[i + 1].node, lastOp.key) = calls[i].ret
          /\ (lastOp.ret = "None" /\ calls # <<>>) => calls[Len(calls)].ret = root
          /\ (lastOp.ret = "None" /\ calls = <<>>) => root = Node(None, lastOp.key, None)

\* an insert whose unwind met a left-heavy node with a right-heavy left
\* child below the root (double rotation) and went on to the ancestors
C32_Witness ==
    /\ kind = "avl"
    /\ lastOp.op = "insert" /\ lastOp.ret = "None"
    /\ \E i \in DOMAIN lastOp.calls :
          /\ i < Len(lastOp.calls)
          /\ HeightDifference(lastOp.calls[i].node) > 1
          /\ HeightDifference(Left(lastOp.calls[i].node)) < 0
          /\ Value(lastOp.calls[i].ret) = lastOp.key

\* C34: when the tree is balanced at every node before the call (as every
\* tree built by inserts only is), one AVLTree.insert rotates at no more than
\* one ancestor of the new leaf (one single or one double rotation); every
\* ancestor above the rotated one is handed to _balance with |bf| <= 1 and
\* returned as it is, and the tree is balanced at every node afterwards.
C34_AtMostOneRebalancePerInsert ==
    [][(/\ kind = "avl"
        /\ lastOp'.op = "insert" /\ lastOp'.ret = "None"
        /\ BalancedAtEveryNode(root))
        => LET calls == lastOp'.calls
           IN /\ Cardinality(Rotated(calls)) <= 1
              /\ \A i \in Rotated(calls) : \A j \in DOMAIN calls :
                    j > i => /\ Abs(HeightDifference(calls[j].node)) <= 1
                             /\ calls[j].ret = calls[j].node
              /\ BalancedAtEveryNode(root')]_vars

\* an insert into a balanced tree that made a double rotation below the root
\* and no other: the ancestors above, the root among them, were re-checked
\* and left alone
C34_Witness ==
    /\ kind = "avl"
    /\ lastOp.op = "insert" /\ lastOp.ret = "None"
    /\ BalancedAtEveryNode(root)
    /\ Cardinality(Rotated(lastOp.calls)) = 1
    /\ \E i \in Rotated(lastOp.calls) :
          /\ i + 1 <= Len(lastOp.calls)
          /\ Value(lastOp.calls[i].ret) = lastOp.key
          /\ \A j \in DOMAIN lastOp.calls :
                j # i => BalancedAtEveryNode(lastOp.calls[j].node)

\* C36: in every AVLTree state reachable by inserts and deletes, rebalancing
\* never reads a field of a missing child: a node handed to _rotate_right
\* (bf > 1) has a left child, a node handed to _rotate_left (bf < -1) has a
\* right child, and a child rotated first in a double rotation has the
\* grandchild that is rotated up; no _balance call raises, and AVLTree.insert
\* either returns or raises DuplicateValueError.
C36_RebalancingNeverMissesAChild ==
    (kind = "avl" /\ lastOp.op = "insert")
    => /\ lastOp.ret \in {"None", "DuplicateValueError"}
       /\ lastOp.ret = "DuplicateValueError" => lastOp.calls = <<>>
       /\ \A i \in DOMAIN lastOp.calls :
             LET X == lastOp.calls[i].node
                 bf == HeightDifference(X)
             IN /\ lastOp.calls[i].exc = ""
                /\ bf > 1 => /\ Left(X) # None
                             /\ HeightDifference(Left(X)) < 0 => Right(Left(X)) # None
                /\ bf < -1 => /\ Right(X) # None
                              /\ HeightDifference(Right(X)) > 0 => Left(Right(X)) # None

\* an insert after deletes had left a node three levels out of balance:
\* the node was rotated with its child leaning the same way
C36_Witness ==
    /\ kind = "avl"
    /\ lastOp.op = "insert" /\ lastOp.ret = "None"
    /\ \E i \in DOMAIN lastOp.calls :
          /\ HeightDifference(lastOp.calls[i].node) >= 3
          /\ HeightDifference(Left(lastOp.calls[i].node)) > 0
          /\ lastOp.calls[i].ret # lastOp.calls[i].node

----------------------------------------------------------------------------
(* An AVLTree filled level by level with twelve keys, then thinned out by   *)
(* deletes of keys at its fringe and refilled with them                     *)

\* the keys in the order of the insert calls that fill the tree; no insert
\* of them rotates
BuildOrder == <<8, 3, 10, 2, 5, 9, 11, 1, 4, 6, 12, 7>>

\* the keys that are deleted and inserted again afterwards
ThinnedKeys == {1, 2, 4, 9, 12}

\* the next call of the filling, while the tree holds exactly the keys of
\* the calls before it
BuildInsert ==
    /\ CountNodes(root) < Len(BuildOrder)
    /\ KeysOf(root) = {BuildOrder[i] : i \in 1..CountNodes(root)}
    /\ TracedAvlInsert(BuildOrder[CountNodes(root) + 1])

NextThinned ==
    \/ BuildInsert
    \/ \E k \in ThinnedKeys : Delete(k)
    \/ \E k \in ThinnedKeys : TracedAvlInsert(k)

SpecThinned == InitAvl /\ [][NextThinned]_vars

\* C33: in every AVLTree state reachable by inserts and deletes, when the
\* unwind of AVLTree.insert hands _balance a node with |bf| > 1, the node
\* that _balance returns as the new subtree root has
\* |height(left) - height(right)| <= 1.
C33_RebalancingRestoresBalance ==
    (kind = "avl" /\ lastOp.op = "insert")
    => \A i \in DOMAIN lastOp.calls :
          Abs(HeightDifference(lastOp.calls[i].node)) > 1
          => Abs(HeightDifference(lastOp.calls[i].ret)) <= 1

----------------------------------------------------------------------------
(* The nodes an operation visits on its way down the tree, as the sequence  *)
(* of their keys                                                            *)

\* the nodes compared with value by _search_recursive, _insert_recursive,
\* _insert_avl and _delete_recursive: each call either ends at its node
\* (equal key) or calls itself on the child on the side of value, and a
\* call on no node (or the test for a missing child) ends the descent
RECURSIVE Descent(_, _)
Descent(node, value) ==
    IF node = None THEN <<>>
    ELSE IF value = Value(node) THEN <<Value(node)>>
    ELSE <<Value(node)>>
            \o Descent(IF value < Value(node) THEN Left(node) ELSE Right(node), value)

\* the loop of find_min and of the successor search: current = current.left
\* while there is one
RECURSIVE LeftDescent(_)
LeftDescent(current) ==
    IF Left(current) = None THEN <<Value(current)>>
    ELSE <<Value(current)>> \o LeftDescent(Left(current))

\* the loop of find_max
RECURSIVE RightDescent(_)
RightDescent(current) ==
    IF Right(current) = None THEN <<Value(current)>>
    ELSE <<Value(current)>> \o RightDescent(Right(current))

\* faulty variant: the predecessor of a node with two children is looked
\* up as well, in its left subtree
RECURSIVE DeleteDescent_AlsoFindsPredecessor(_, _)
DeleteDescent_AlsoFindsPredecessor(node, value) ==
    IF node = None THEN <<>>
    ELSE IF value < Value(node)
    THEN <<Value(node)>> \o DeleteDescent_AlsoFindsPredecessor(Left(node), value)
    ELSE IF value > Value(node)
    THEN <<Value(node)>> \o DeleteDescent_AlsoFindsPredecessor(Right(node), value)
    ELSE IF Left(node) = None \/ Right(node) = None THEN <<Value(node)>>
    ELSE <<Value(node)>> \o LeftDescent(Right(node)) \o RightDescent(Left(node))

\* _delete_recursive: the descent to the node that holds value and, when
\* that node has two children, the successor walk below it
RECURSIVE DeleteDescent(_, _)
DeleteDescent(node, value) ==
    IF node = None THEN <<>>
    ELSE IF value < Value(node) THEN <<Value(node)>> \o DeleteDescent(Left(node), value)
    ELSE IF value > Value(node) THEN <<Value(node)>> \o DeleteDescent(Right(node), value)
    ELSE IF Left(node) = None \/ Right(node) = None THEN <<Value(node)>>
    ELSE <<Value(node)>> \o LeftDescent(Right(node))

\* a call that has come to its end, with the nodes it visited
Visiting(op, k, ret, visited) ==
    /\ lastOp' = [op |-> op, key |-> k, ret |-> ret, visited |-> visited]
    /\ UNCHANGED <<kind, offTree>>

DescentBstInsert(k) ==
    /\ kind = "bst"
    /\ LET res == BstInsertResult(root, k)
       IN /\ root' = res.t
          /\ Visiting("insert", k, RetOfInsert(res.exc), Descent(root, k))

DescentAvlInsert(k) ==
    /\ kind = "avl"
    /\ LET res == AvlInsertResult(root, k)
       IN /\ root' = res.t
          /\ Visiting("insert", k, RetOfInsert(res.exc), Descent(root, k))

DescentDelete(k) ==
    /\ LET res == DeleteResult(root, k)
       IN /\ root' = res.t
          /\ Visiting("delete", k, IF res.deleted THEN "True" ELSE "False",
                      DeleteDescent(root, k))

DescentSearch(k) ==
    /\ Visiting("search", k, Search(root, k).ret, Descent(root, k))
    /\ UNCHANGED root

DescentFindMin ==
    /\ Visiting("find_min", 0, FindMin(root).ret,
                IF root = None THEN <<>> ELSE LeftDescent(root))
    /\ UNCHANGED root

DescentFindMax ==
    /\ Visiting("find_max", 0, FindMax(root).ret,
                IF root = None THEN <<>> ELSE RightDescent(root))
    /\ UNCHANGED root

NextDescent ==
    \/ \E k \in Keys : DescentBstInsert(k)
    \/ \E k \in Keys : DescentAvlInsert(k)
    \/ \E k \in Keys : DescentDelete(k)
    \/ \E k \in Keys : DescentSearch(k)
    \/ DescentFindMin
    \/ DescentFindMax

SpecDescent == Init /\ [][NextDescent]_vars

\* the nodes of a walk lie on one way down from the root, one per level:
\* the first is the root and each next one is a child of the one before
OnePerLevel(tree, visited) ==
    /\ \A i \in DOMAIN visited : Len(PathTo(tree, visited[i])) = i - 1
    /\ \A i \in 1..(Len(visited) - 1) :
          SubSeq(PathTo(tree, visited[i + 1]), 1, i - 1) = PathTo(tree, visited[i])

\* C35: on every reachable tree, each insert, search and delete comes to its
\* end, and the nodes it visits on the way down from the root, the
\* successor walk of a two-children delete included, are at most height()+1,
\* one per level; find_min and find_max come to their end after at most
\* height()+1 nodes.
C35_WalksEndWithinTheHeight ==
    [][(lastOp'.op \in {"insert", "search", "delete", "find_min", "find_max"})
        => /\ Len(lastOp'.visited) <= HeightRecursive(root) + 1
           /\ OnePerLevel(root, lastOp'.visited)
           /\ lastOp'.op = "insert" => lastOp'.ret \in {"None", "DuplicateValueError"}
           /\ lastOp'.op = "delete" => lastOp'.ret \in {"True", "False"}
           /\ lastOp'.op \in {"search", "find_min", "find_max"}
                 => lastOp'.ret \in {"value", "None"}]_vars

\* a two-children delete below the root whose successor was not the right
\* child of the node: the walk went over all four levels of the tree
C35_Witness ==
    /\ lastOp.op = "delete" /\ lastOp.ret = "True"
    /\ Len(lastOp.visited) = 4
    /\ lastOp.visited[2] = lastOp.key
    /\ HeightRecursive(root) = 2

----------------------------------------------------------------------------
(* A plain BinarySearchTree whose calls keep what the round trip of an      *)
(* insert and a delete needs: the tree an insert started from, and whether  *)
(* a delete takes back the insert made just before it                       *)

RoundTripInsert(k) ==
    /\ kind = "bst"
    /\ LET res == BstInsertResult(root, k)
       IN /\ root' = res.t
          /\ lastOp' = [op |-> "insert", key |-> k, ret |-> RetOfInsert(res.exc),
                        was |-> root]
    /\ UNCHANGED <<kind, offTree>>

RoundTripDelete(k) ==
    /\ kind = "bst"
    /\ LET res == DeleteResult(root, k)
       IN /\ root' = res.t
          /\ lastOp' = [op |-> "delete", key |-> k,
                        ret |-> IF res.deleted THEN "True" ELSE "False",
                        undoes |-> /\ lastOp.op = "insert"
                                   /\ lastOp.key = k
                                   /\ lastOp.ret = "None"]
    /\ UNCHANGED <<kind, offTree>>

NextRoundTrip ==
    \/ \E k \in Keys : RoundTripInsert(k)
    \/ \E k \in Keys : RoundTripDelete(k)
    \/ Clear

SpecRoundTrip == InitBst /\ [][NextRoundTrip]_vars

\* C37: for a plain BinarySearchTree in any reachable state and any key k
\* not present, insert(k) followed immediately by delete(k) restores exactly
\* the tree from before the insert (same shape, same keys at the same
\* positions), and the delete returns True.
C37_InsertThenDeleteRestoresTheTree ==
    [][(/\ kind = "bst"
        /\ lastOp.op = "insert" /\ lastOp.ret = "None"
        /\ lastOp'.op = "delete" /\ lastOp'.key = lastOp.key)
        => /\ lastOp.key \notin KeysOf(lastOp.was)
           /\ lastOp'.ret = "True"
           /\ lastOp'.undoes
           /\ root' = lastOp.was
           /\ PathsOf(root', <<>>) = PathsOf(lastOp.was, <<>>)]_vars

\* a delete that took back the insert made just before it, whose leaf had
\* hung two links below the root of a tree that has nodes on both sides
C37_Witness ==
    /\ kind = "bst"
    /\ lastOp.op = "delete" /\ lastOp.ret = "True" /\ lastOp.undoes
    /\ Len(ComparisonPath(root, lastOp.key)) = 2
    /\ Left(root) # None /\ Right(root) # None

----------------------------------------------------------------------------
(* task1.py: StatisticsStack, a Stack that counts its pushes and pops       *)

\* Stack.peek
StackPeek(its) ==
    IF StackIsEmpty(its) THEN [items |-> its, out |-> Raised("StackUnderflowError")]
    ELSE [items |-> its, out |-> Gave(its[Len(its)])]

\* StatisticsStack.push: super().push(item), then the two counters
StatisticsPush(its, st, item) ==
    LET res == StackPush(its, item)
    IN [items |-> res.items, out |-> res.out,
        statistics |-> [st EXCEPT !.total_pushes = @ + 1,
                                  !.max_size_reached = Max(@, Len(res.items))]]

\* StatisticsStack.pop: when super().pop() raises, total_pops is not counted
StatisticsPop(its, st) ==
    LET res == StackPop(its)
    IN IF res.out.ret = "StackUnderflowError"
       THEN [items |-> res.items, out |-> res.out, statistics |-> st]
       ELSE [items |-> res.items, out |-> res.out,
             statistics |-> [st EXCEPT !.total_pops = @ + 1]]

\* StatisticsStack.get_statistics
GetStatistics(its, st) ==
    [total_pushes |-> st.total_pushes,
     total_pops |-> st.total_pops,
     current_size |-> Len(its),
     max_size_reached |-> st.max_size_reached]

\* what a call on a StatisticsStack leaves alone
offStatistics == <<kind, root, heap, rootRef, head, tail, deque, front, rear, size,
                   max_size>>

\* StatisticsStack()
InitStatistics ==
    /\ kind = "StatisticsStack"
    /\ root = None
    /\ lastOp = [op |-> "init", key |-> 0, ret |-> "None"]
    /\ NothingElse

StatisticsAnswers(op, item, out) ==
    lastOp' = [op |-> op, key |-> item, ret |-> out.ret, val |-> out.val]

\* push of the next item; the items are numbered in the order they come
StatisticsPushCall ==
    /\ clock < MaxItems
    /\ LET res == StatisticsPush(items, statistics, clock + 1)
       IN /\ items' = res.items
          /\ statistics' = res.statistics
          /\ StatisticsAnswers("push", clock + 1, res.out)
    /\ clock' = clock + 1
    /\ UNCHANGED offStatistics

StatisticsPopCall ==
    /\ LET res == StatisticsPop(items, statistics)
       IN /\ items' = res.items
          /\ statistics' = res.statistics
          /\ StatisticsAnswers("pop", 0, res.out)
    /\ UNCHANGED <<clock, offStatistics>>

StatisticsPeekCall ==
    /\ StatisticsAnswers("peek", 0, StackPeek(items).out)
    /\ UNCHANGED <<items, statistics, clock, offStatistics>>

\* clear is the one inherited from Stack: self.items.clear()
StatisticsClearCall ==
    /\ items' = <<>>
    /\ StatisticsAnswers("clear", 0, GaveNone)
    /\ UNCHANGED <<statistics, clock, offStatistics>>

GetStatisticsCall ==
    /\ StatisticsAnswers("get_statistics", 0, Gave(GetStatistics(items, statistics)))
    /\ UNCHANGED <<items, statistics, clock, offStatistics>>

NextStatistics ==
    \/ StatisticsPushCall
    \/ StatisticsPopCall
    \/ StatisticsPeekCall
    \/ StatisticsClearCall
    \/ GetStatisticsCall

SpecStatistics == InitStatistics /\ [][NextStatistics]_vars

\* C38: in every reachable state of a StatisticsStack (push, pop including
\* failed pops on empty, peek, clear), get_statistics() is consistent:
\* current_size = total_pushes - total_pops and
\* current_size <= max_size_reached <= total_pushes.
C38_StatisticsAreConsistent ==
    kind = "StatisticsStack"
    => LET stats == GetStatistics(items, statistics)
       IN /\ stats.current_size = stats.total_pushes - stats.total_pops
          /\ stats.current_size <= stats.max_size_reached
          /\ stats.max_size_reached <= stats.total_pushes

----------------------------------------------------------------------------
(* Claim about the fields of LinkedListQueue *)

\* C39: in every reachable state of a LinkedListQueue (enqueue, dequeue,
\* peek, clear), size() equals the number of nodes reachable from front;
\* front is None exactly when rear is None exactly when size() = 0; when the
\* queue is not empty, rear is the last node reachable from front and
\* rear.next is None; so the item of an enqueue, also of one made after the
\* queue was emptied, is the last of the chain.
C39_LinkedQueueFieldsAgree ==
    /\ LinkedSize(size) = Len(ToList(heap, front))
    /\ (front = NoneRef) = (rear = NoneRef)
    /\ (front = NoneRef) = (LinkedSize(size) = 0)
    /\ front # NoneRef => /\ rear = LastNode(heap, front)
                          /\ heap[rear].next = NoneRef
    /\ DOMAIN heap = LinkedFrom(heap, {front} \ {NoneRef})
    /\ lastOp.op = "enqueue"
          => /\ front # NoneRef
             /\ heap[rear].data = lastOp.key
             /\ ToList(heap, front)[LinkedSize(size)] = lastOp.key

\* an enqueue into a queue that had held items and been emptied: the new
\* node is front and rear
C39_Witness ==
    /\ lastOp.op = "enqueue"
    /\ lastOp.key >= 3
    /\ size = 1
    /\ front # NoneRef /\ front = rear
    /\ heap[front].data = lastOp.key

====
